---- MODULE Spec2Model ----
(***************************************************************************)
(* Membership workflow of the focus backend: the ClubMembershipRequest     *)
(* life cycle (models.py), the creation of a Club with its Channel,        *)
(* Channel subscriptions, and the endpoints of api/views.py with the       *)
(* permission classes and filter backends that guard them.                 *)
(*                                                                         *)
(* Tables are functions from primary keys to rows; DOMAIN t is the set of  *)
(* rows that exist.  The specifications share the tables:                  *)
(*   Spec         callers that load a request and then call accept(),      *)
(*                reject() or cancel() on the loaded instance (models.py); *)
(*   SpecApi      the request endpoints of api/views.py, one at a time;    *)
(*   SpecMembers  the ClubRole and ClubMembership endpoints, with the      *)
(*                request life cycle;                                      *)
(*   SpecClub     Club.save() and Club.delete() (models.py);               *)
(*   SpecChannel  Channel.subscribe() / unsubscribe() (models.py);         *)
(*   SpecClubApi, SpecRole, SpecMembership, SpecMembershipList,            *)
(*   SpecRequest, SpecPost, SpecReply, SpecFeedback, SpecProject,          *)
(*   SpecFeedbackApi, SpecReplyApi, SpecConversation, SpecSubscribe,       *)
(*   SpecMembershipUpdate                                                  *)
(*                the endpoints of one viewset each;                       *)
(*   SpecParse    the list calls with query texts that are no integers;    *)
(*   SpecRoles    accept() on clubs whose roles were named or whose name   *)
(*                was changed;                                             *)
(*   SpecCreate   create calls of requests whose checks and INSERT         *)
(*                interleave;                                              *)
(*   SpecScope    the clubs the filter backends take a caller to be in.    *)
(***************************************************************************)
EXTENDS Integers, Sequences, FiniteSets, TLC

VARIABLES
    clubs,        \* Club rows: pk -> [name]
    channels,     \* Channel rows: pk -> [club, name]
    subs,         \* ChannelSubscription rows: pk -> [user, channel]
    roles,        \* ClubRole rows: pk -> [name, description, club, privilege]
    memberships,  \* ClubMembership rows: pk -> [user, club_role]
    requests,     \* ClubMembershipRequest rows: pk -> [user, club, status, closed]
    inflight,     \* per caller: the request instance it holds, or NoInst
    posts,        \* Post rows: pk -> [channel]
    conversations,  \* Conversation rows: pk -> [channel, author, parent]
    feedbacks,    \* Feedback rows: pk -> [club, author, created]
    replies,      \* FeedbackReply rows: pk -> [parent]
    projects,     \* Project rows: pk -> [leader, clubs]
    project_memberships,  \* ProjectMembership rows: pk -> [user, club, project]
    listed,       \* the rows the last list call returned, in order
    last          \* the call that the last step completed

\* The tables of the content endpoints, and the tables of the membership workflow
content == <<posts, conversations, feedbacks, replies, projects,
             project_memberships, listed>>
workflow == <<clubs, channels, subs, roles, memberships, requests, inflight>>

vars == <<workflow, content, last>>

-----------------------------------------------------------------------------
(* constants.py *)

PRIVILEGE_REP == "REP"
PRIVILEGE_MEM == "MEM"
REQUEST_STATUS_PENDING == "PD"
REQUEST_STATUS_ACCEPTED == "AC"
REQUEST_STATUS_REJECTED == "RE"
REQUEST_STATUS_CANCELLED == "CN"

DISPLAY_NAME(k) ==
    CASE k = PRIVILEGE_REP -> "Representative"
      [] k = PRIVILEGE_MEM -> "Member"
      [] k = REQUEST_STATUS_PENDING -> "Pending"
      [] k = REQUEST_STATUS_ACCEPTED -> "Accepted"
      [] k = REQUEST_STATUS_REJECTED -> "Rejected"
      [] k = REQUEST_STATUS_CANCELLED -> "Cancelled"

-----------------------------------------------------------------------------
(* Bounds and universes *)

MaxRoles == 2
MaxMemberships == 2
MaxRequests == 2
MaxClubs == 2
MaxChannels == 2
MaxSubs == 3
MaxAsked == 1

RoleIds == 1..MaxRoles
MembershipIds == 1..MaxMemberships
RequestIds == 1..MaxRequests
ClubIds == 1..MaxClubs
ChannelIds == 1..MaxChannels
SubIds == 1..MaxSubs

\* User primary keys.  12 is there because the filters match ids by substring.
AllUsers == {1, 2, 12}
Secretaries == {2}
ClubNames == {"Chess", "Drama"}
Callers == {1, 2}

Null == 0            \* closed = None
NoInst == [rid |-> 0, user |-> 0, club |-> 0, status |-> "", closed |-> Null]
NoCall == [op |-> "", actor |-> 0, target |-> 0, result |-> "", detail |-> ""]

\* Points at which the store can fail inside accept()'s transaction
Faults == {"none", "role", "membership", "save"}

-----------------------------------------------------------------------------
(* Table helpers *)

\* No row in any content table, and no list call made
NoContent ==
    /\ posts = << >>
    /\ conversations = << >>
    /\ feedbacks = << >>
    /\ replies = << >>
    /\ projects = << >>
    /\ project_memberships = << >>
    /\ listed = << >>

FreeIds(table, Ids) == Ids \ DOMAIN table

NewId(table, Ids) ==
    CHOOSE i \in FreeIds(table, Ids) : \A j \in FreeIds(table, Ids) : i <= j

Insert(table, id, row) == (id :> row) @@ table

Delete(table, gone) == [i \in DOMAIN table \ gone |-> table[i]]

-----------------------------------------------------------------------------
(* models.py: User, Club *)

is_secretary(user) == user \in Secretaries

has_member(club, user) ==
    \E m \in DOMAIN memberships :
        /\ memberships[m].user = user
        /\ memberships[m].club_role \in DOMAIN roles
        /\ roles[memberships[m].club_role].club = club

has_rep(club, user) ==
    \E m \in DOMAIN memberships :
        /\ memberships[m].user = user
        /\ memberships[m].club_role \in DOMAIN roles
        /\ roles[memberships[m].club_role].club = club
        /\ roles[memberships[m].club_role].privilege = PRIVILEGE_REP

has_role(club, club_role) == roles[club_role].club = club

has_pending_request(club, user) ==
    \E r \in DOMAIN requests :
        /\ requests[r].user = user
        /\ requests[r].club = club
        /\ requests[r].status = REQUEST_STATUS_PENDING

-----------------------------------------------------------------------------
(* The store as one value, so that a transaction can be rolled back *)

DB == [roles |-> roles, memberships |-> memberships, requests |-> requests]

\* QuerySet.create(**row): a new row, whatever rows there are
always_create(table, Ids, row) ==
    IF FreeIds(table, Ids) = {}
    THEN [outcome |-> "full", table |-> table, id |-> 0]
    ELSE [outcome |-> "created",
          table |-> Insert(table, NewId(table, Ids), row),
          id |-> NewId(table, Ids)]

\* QuerySet.get_or_create(**row): the row that equals `row`, created when
\* there is none; Model.objects.get() raises MultipleObjectsReturned when
\* there are several.  "full" is the model's bound on the table, not an
\* outcome of the code: actions are disabled on it.
get_or_create(table, Ids, row) ==
    LET found == {i \in DOMAIN table : table[i] = row} IN
    IF Cardinality(found) > 1
    THEN [outcome |-> "MultipleObjectsReturned", table |-> table, id |-> 0]
    ELSE IF found # {}
    THEN [outcome |-> "got", table |-> table, id |-> CHOOSE i \in found : TRUE]
    ELSE IF FreeIds(table, Ids) = {}
    THEN [outcome |-> "full", table |-> table, id |-> 0]
    ELSE [outcome |-> "created",
          table |-> Insert(table, NewId(table, Ids), row),
          id |-> NewId(table, Ids)]

StoreFault(table) == [outcome |-> "fault", table |-> table, id |-> 0]

\* The kwargs of ClubRole.objects.get_or_create in Club.add_member
DefaultRole(club, privilege) ==
    [name |-> DISPLAY_NAME(privilege),
     description |-> [role |-> DISPLAY_NAME(privilege), of |-> clubs[club].name],
     club |-> club,
     privilege |-> privilege]

\* A club that adds nobody (the accept() of a request that forgets the member)
add_nobody(db, club, user, privilege, fail) == [outcome |-> "ok", db |-> db]

\* Club.add_member(user, privilege): the writes done when the store fails at
\* `fail`, with outcome "ok" when both get_or_create calls returned.
add_member(db, club, user, privilege, fail) ==
    LET r == IF fail = "role" THEN StoreFault(db.roles)
             ELSE get_or_create(db.roles, RoleIds, DefaultRole(club, privilege))
        db1 == [db EXCEPT !.roles = r.table]
    IN  IF r.outcome \notin {"got", "created"}
        THEN [outcome |-> r.outcome, db |-> db1]
        ELSE LET m == IF fail = "membership" THEN StoreFault(db1.memberships)
                      ELSE get_or_create(db1.memberships, MembershipIds,
                                         [user |-> user, club_role |-> r.id])
             IN  [outcome |-> IF m.outcome \in {"got", "created"}
                              THEN "ok" ELSE m.outcome,
                  db |-> [db1 EXCEPT !.memberships = m.table]]

-----------------------------------------------------------------------------
(* models.py: ClubMembershipRequest *)

\* datetime.now() as stored in `closed`.  Timestamps are only ever compared
\* within one row, so the clock is read per row: later than the row's stored
\* `closed` (Null = 0 before the first close).
now(db, rid) == db.requests[rid].closed + 1

\* A request that is always taken for pending (no guard on the transition)
always_pending(inst) == TRUE

is_pending(inst) == inst.status = REQUEST_STATUS_PENDING

\* Model.save() of a loaded instance: every field of the row is written
save(db, inst, fail) ==
    IF fail = "save"
    THEN [outcome |-> "fault", db |-> db]
    ELSE [outcome |-> "ok",
          db |-> [db EXCEPT !.requests =
                    Insert(Delete(db.requests, {inst.rid}), inst.rid,
                           [user |-> inst.user, club |-> inst.club,
                            status |-> inst.status, closed |-> inst.closed])]]

\* A block without a transaction: its writes stay when it raises
not_atomic(pre, block) == block.db

\* transaction.atomic(): the writes of a block that raised are rolled back
atomic(pre, block) == IF block.outcome = "ok" THEN block.db ELSE pre

\* What a call returns to its caller
Raised(outcome) ==
    CASE outcome = "ok" -> "ok"
      [] outcome = "full" -> "full"
      [] OTHER -> "error"

accept(db, inst, fail) ==
    IF ~is_pending(inst)
    THEN [result |-> "ActionNotAvailable", db |-> db,
          detail |-> DISPLAY_NAME(inst.status)]
    ELSE LET self == [inst EXCEPT !.status = REQUEST_STATUS_ACCEPTED,
                                  !.closed = now(db, inst.rid)]
             am == add_member(db, self.club, self.user, PRIVILEGE_MEM, fail)
             block == IF am.outcome # "ok" THEN am ELSE save(am.db, self, fail)
         IN  [result |-> Raised(block.outcome), db |-> atomic(db, block),
              detail |-> ""]

\* A reject() that also removes the other requests of the same user
reject_and_purge(db, inst, fail) ==
    IF ~is_pending(inst)
    THEN [result |-> "ActionNotAvailable", db |-> db,
          detail |-> DISPLAY_NAME(inst.status)]
    ELSE LET self == [inst EXCEPT !.status = REQUEST_STATUS_REJECTED,
                                  !.closed = now(db, inst.rid)]
             others == {r \in DOMAIN db.requests :
                            r # inst.rid /\ db.requests[r].user = inst.user}
             s == save([db EXCEPT !.requests = Delete(db.requests, others)],
                       self, fail)
         IN  [result |-> Raised(s.outcome), db |-> s.db, detail |-> ""]

reject(db, inst, fail) ==
    IF ~is_pending(inst)
    THEN [result |-> "ActionNotAvailable", db |-> db,
          detail |-> DISPLAY_NAME(inst.status)]
    ELSE LET self == [inst EXCEPT !.status = REQUEST_STATUS_REJECTED,
                                  !.closed = now(db, inst.rid)]
             s == save(db, self, fail)
         IN  [result |-> Raised(s.outcome), db |-> s.db, detail |-> ""]

cancel(db, inst, fail) ==
    IF ~is_pending(inst)
    THEN [result |-> "ActionNotAvailable", db |-> db,
          detail |-> DISPLAY_NAME(inst.status)]
    ELSE LET self == [inst EXCEPT !.status = REQUEST_STATUS_CANCELLED,
                                  !.closed = now(db, inst.rid)]
             s == save(db, self, fail)
         IN  [result |-> Raised(s.outcome), db |-> s.db, detail |-> ""]

Transition(op, db, inst, fail) ==
    CASE op = "accept" -> accept(db, inst, fail)
      [] op = "reject" -> reject(db, inst, fail)
      [] op = "cancel" -> cancel(db, inst, fail)

\* ClubMembershipRequest.objects.get(pk=rid): the instance a caller holds
Instance(rid) ==
    [rid |-> rid, user |-> requests[rid].user, club |-> requests[rid].club,
     status |-> requests[rid].status, closed |-> requests[rid].closed]

\* The store after a call
Commit(out) ==
    /\ out.result # "full"
    /\ roles' = out.db.roles
    /\ memberships' = out.db.memberships
    /\ requests' = out.db.requests

-----------------------------------------------------------------------------
(* api/views.py: ClubMembershipRequestViewSet.create / perform_create *)

\* perform_create alone, without the checks of create
create_unchecked(db, actor, club) ==
    IF FreeIds(db.requests, RequestIds) = {}
    THEN [result |-> "full", db |-> db, id |-> 0]
    ELSE [result |-> "ok",
          db |-> [db EXCEPT !.requests =
                    Insert(db.requests, NewId(db.requests, RequestIds),
                           [user |-> actor, club |-> club,
                            status |-> REQUEST_STATUS_PENDING,
                            closed |-> Null])],
          id |-> NewId(db.requests, RequestIds)]

create_request(db, actor, club) ==
    IF has_member(club, actor) \/ has_pending_request(club, actor)
    THEN [result |-> "ActionNotAvailable", db |-> db, id |-> 0]
    ELSE IF FreeIds(db.requests, RequestIds) = {}
    THEN [result |-> "full", db |-> db, id |-> 0]
    ELSE [result |-> "ok",
          db |-> [db EXCEPT !.requests =
                    Insert(db.requests, NewId(db.requests, RequestIds),
                           [user |-> actor, club |-> club,
                            status |-> REQUEST_STATUS_PENDING,
                            closed |-> Null])],
          id |-> NewId(db.requests, RequestIds)]

RequestCreate(actor, club) ==
    /\ club \in DOMAIN clubs
    /\ LET out == create_request(DB, actor, club) IN
        /\ out.result # "full"
        /\ requests' = out.db.requests
        /\ last' = [op |-> "create", actor |-> actor, target |-> club,
                    result |-> out.result, detail |-> ""]
    /\ UNCHANGED <<clubs, channels, subs, roles, memberships, inflight>>
    /\ UNCHANGED content

-----------------------------------------------------------------------------
(* Callers of the model methods: load an instance, then call a method *)

\* Callers are interchangeable: a new call takes the first free slot
FreeCaller(h) ==
    /\ inflight[h] = NoInst
    /\ \A g \in Callers : g < h => inflight[g] # NoInst

LoadRequest(h, rid) ==
    /\ FreeCaller(h)
    /\ rid \in DOMAIN requests
    /\ inflight' = [inflight EXCEPT ![h] = Instance(rid)]
    /\ last' = NoCall
    /\ UNCHANGED <<clubs, channels, subs, roles, memberships, requests>>
    /\ UNCHANGED content

Call(h, op, fail) ==
    /\ inflight[h] # NoInst
    /\ LET out == Transition(op, DB, inflight[h], fail) IN
        /\ Commit(out)
        /\ last' = [op |-> op, actor |-> 0, target |-> inflight[h].rid,
                    result |-> out.result, detail |-> out.detail]
    /\ inflight' = [inflight EXCEPT ![h] = NoInst]
    /\ UNCHANGED <<clubs, channels, subs>>
    /\ UNCHANGED content

Accept(h) == \E fail \in Faults : Call(h, "accept", fail)

Reject(h) == \E fail \in {"none", "save"} : Call(h, "reject", fail)

Cancel(h) == \E fail \in {"none", "save"} : Call(h, "cancel", fail)

TheClubs == [c \in ClubIds |-> [name |-> IF c = 1 THEN "Chess" ELSE "Drama"]]

\* The kwargs of Channel.objects.create in Club.save
DefaultChannel(club, name) == [name |-> <<name, "Channel">>, club |-> club]

\* The users who ask for membership in Spec
Requesters == {12}

Init ==
    /\ clubs = [c \in {1} |-> TheClubs[c]]
    /\ channels = [c \in {1} |-> DefaultChannel(c, TheClubs[c].name)]
    /\ subs = << >>
    /\ roles = << >>
    /\ memberships = << >>
    /\ requests = << >>
    /\ inflight = [h \in Callers |-> NoInst]
    /\ NoContent
    /\ last = NoCall

Next ==
    \/ \E actor \in Requesters, club \in ClubIds : RequestCreate(actor, club)
    \/ \E h \in Callers, rid \in RequestIds : LoadRequest(h, rid)
    \/ \E h \in Callers : Accept(h)
    \/ \E h \in Callers : Reject(h)
    \/ \E h \in Callers : Cancel(h)

Spec == Init /\ [][Next]_vars

-----------------------------------------------------------------------------
(* Properties of the request life cycle, checked under Spec *)

TransitionOps == {"accept", "reject", "cancel"}

\* The step completed a call of `op` by the caller in slot h
Called(h, op) ==
    /\ inflight[h] # NoInst
    /\ inflight'[h] = NoInst
    /\ last'.op = op

StoreUnchanged ==
    /\ roles' = roles
    /\ memberships' = memberships
    /\ requests' = requests

\* The requester of r holds a membership through a MEMBER role of r's club
MemberThroughMemberRole(r) ==
    \E m \in DOMAIN memberships :
        /\ memberships[m].user = requests[r].user
        /\ memberships[m].club_role \in DOMAIN roles
        /\ roles[memberships[m].club_role].club = requests[r].club
        /\ roles[memberships[m].club_role].privilege = PRIVILEGE_MEM

AcceptedWithMember(r) ==
    /\ requests[r].status = REQUEST_STATUS_ACCEPTED
    /\ requests[r].closed # Null
    /\ has_member(requests[r].club, requests[r].user)
    /\ MemberThroughMemberRole(r)

\* C1: of the transitions called on one request, only the first to commit
\* succeeds: a call of accept(), reject() or cancel() that returns normally
\* found the stored request PENDING, so no request is transitioned twice
\* (every other call fails with ActionNotAvailable).
C1_OnlyOneTransitionSucceeds ==
    [][\A r \in RequestIds :
        (last'.op \in TransitionOps /\ last'.result = "ok" /\ last'.target = r)
        => requests[r].status = REQUEST_STATUS_PENDING]_vars

\* C2: after accept() returns normally the stored request is ACCEPTED with
\* closed set, its club has the requester as a member, and the requester
\* holds a membership through a MEMBER-privilege role of that club.
C2_AcceptPostcondition ==
    [][\A r \in RequestIds :
        (last'.op = "accept" /\ last'.result = "ok" /\ last'.target = r)
        => AcceptedWithMember(r)']_vars

C2_Witness ==
    /\ last.op = "accept"
    /\ last.result = "ok"
    /\ AcceptedWithMember(last.target)

\* C3: accept(), reject() and cancel() called on a request instance whose
\* status is not PENDING raise ActionNotAvailable, naming the action and the
\* current status, and write nothing: requests, roles and memberships are
\* as they were.
C3_NonPendingIsRefused ==
    [][\A h \in Callers :
        (/\ inflight[h] # NoInst
         /\ inflight'[h] = NoInst
         /\ inflight[h].status # REQUEST_STATUS_PENDING)
        => /\ last'.op \in TransitionOps
           /\ last'.result = "ActionNotAvailable"
           /\ last'.detail = DISPLAY_NAME(inflight[h].status)
           /\ StoreUnchanged]_vars

C3_Witness ==
    /\ last.op = "reject"
    /\ last.result = "ActionNotAvailable"
    /\ last.detail = "Accepted"
    /\ requests[last.target].status = REQUEST_STATUS_ACCEPTED

\* C4: accept() on a PENDING request is all or nothing: when it ends, either
\* the request is stored ACCEPTED with closed set and the requester is a
\* member, or the call raised and no role, membership or request row it
\* wrote survives (the stored status is what it was).
C4_AcceptAllOrNothing ==
    [][\A h \in Callers :
        (Called(h, "accept") /\ is_pending(inflight[h]))
        => \/ /\ last'.result = "ok"
              /\ \A r \in RequestIds :
                    r = inflight[h].rid => AcceptedWithMember(r)'
           \/ /\ last'.result = "error"
              /\ StoreUnchanged]_vars

\* accept() raised on a PENDING request whose requester is still no member
C4_Witness ==
    /\ last.op = "accept"
    /\ last.result = "error"
    /\ requests[last.target].status = REQUEST_STATUS_PENDING
    /\ ~has_member(requests[last.target].club, requests[last.target].user)

\* C5: a create of a request for (user, club) is refused with
\* ActionNotAvailable, adding no row, when the user is a member of the club
\* or has a PENDING request for it; otherwise it adds exactly one row, which
\* belongs to the calling user, is PENDING and has closed = null.
C5_CreateOnlyForNonMembers ==
    [][\A u \in AllUsers, c \in ClubIds :
        (last'.op = "create" /\ last'.actor = u /\ last'.target = c)
        => IF has_member(c, u) \/ has_pending_request(c, u)
           THEN /\ last'.result = "ActionNotAvailable"
                /\ StoreUnchanged
           ELSE /\ last'.result = "ok"
                /\ roles' = roles
                /\ memberships' = memberships
                /\ \E r \in RequestIds \ DOMAIN requests :
                      requests' = Insert(requests, r,
                                         [user |-> u, club |-> c,
                                          status |-> REQUEST_STATUS_PENDING,
                                          closed |-> Null])]_vars

\* a member asked again and was refused
C5_Witness ==
    /\ last.op = "create"
    /\ last.result = "ActionNotAvailable"
    /\ has_member(last.target, last.actor)
    /\ ~has_pending_request(last.target, last.actor)

-----------------------------------------------------------------------------
(* api/filters.py, api/permissions.py *)

SAFE_METHODS == {"GET", "HEAD", "OPTIONS"}

RECURSIVE Digits(_)
Digits(n) == IF n < 10 THEN <<n>> ELSE Append(Digits(n \div 10), n % 10)

\* The lookup id__contains=part: the decimal text of id contains that of part
id__contains(id, part) ==
    \E i \in 1..Len(Digits(id)) :
        /\ i + Len(Digits(part)) - 1 <= Len(Digits(id))
        /\ SubSeq(Digits(id), i, i + Len(Digits(part)) - 1) = Digits(part)

\* ClubMembershipRequestFilter: the clubs taken for those the user represents
club_list(user) ==
    {c \in DOMAIN clubs :
        \E m \in DOMAIN memberships :
            /\ roles[memberships[m].club_role].club = c
            /\ roles[memberships[m].club_role].privilege = PRIVILEGE_REP
            /\ id__contains(memberships[m].user, user)}

\* ClubMembershipRequestFilter.filter_queryset with no query parameters
ClubMembershipRequestFilter(user) ==
    {r \in DOMAIN requests :
        requests[r].club \in club_list(user) \/ requests[r].user = user}

\* ClubRoleFilter.filter_queryset: the rows the join yields for one ClubRole,
\* one for each membership of its club whose user id matches
ClubRoleFilter(user, role) ==
    {m \in DOMAIN memberships :
        /\ roles[memberships[m].club_role].club = roles[role].club
        /\ id__contains(memberships[m].user, user)}

\* A permission that lets every user through
ClubMembershipRequestPermission_open(method, user, rid) == TRUE

ClubMembershipRequestPermission(method, user, rid) ==
    IF method \notin SAFE_METHODS
    THEN FALSE
    ELSE has_rep(requests[rid].club, user) \/ requests[rid].user = user

ClubRolePermission(method, user, role) ==
    IF method \in SAFE_METHODS
    THEN has_member(roles[role].club, user)
    ELSE has_rep(roles[role].club, user)

\* A permission that lets every user create
ClubMembershipPermission_open(method, user) == TRUE

\* ClubMembershipPermission.has_permission
ClubMembershipPermission(method, user) ==
    IF method = "POST" THEN is_secretary(user) ELSE TRUE

\* ClubMembershipPermission.has_object_permission
ClubMembershipObjectPermission(method, user, m) ==
    IF is_secretary(user)
    THEN TRUE
    ELSE IF method \in SAFE_METHODS
    THEN has_member(roles[memberships[m].club_role].club, user)
    ELSE has_rep(roles[memberships[m].club_role].club, user)

-----------------------------------------------------------------------------
(* api/views.py: ClubMembershipRequestViewSet.accept / reject / cancel *)

\* The check each endpoint makes on the current user
actor_check(op, user, rid) ==
    IF op = "cancel"
    THEN requests[rid].user = user
    ELSE has_rep(requests[rid].club, user)

\* An endpoint that calls the model method for whoever asks
request_action_unchecked(op, db, user, rid) ==
    Transition(op, db, Instance(rid), "none")

\* PUT <rid>/accept/, /reject/, /cancel/: get_object() (filter backend, then
\* object permission), the check on the current user, the model method
request_action(op, db, user, rid) ==
    IF rid \notin ClubMembershipRequestFilter(user)
    THEN [result |-> "NotFound", db |-> db, detail |-> ""]
    ELSE IF ~ClubMembershipRequestPermission("PUT", user, rid)
    THEN [result |-> "PermissionDenied", db |-> db, detail |-> ""]
    ELSE IF ~actor_check(op, user, rid)
    THEN [result |-> "PermissionDenied", db |-> db, detail |-> ""]
    ELSE Transition(op, db, Instance(rid), "none")

RequestAction(op, user, rid) ==
    /\ rid \in DOMAIN requests
    /\ LET out == request_action(op, DB, user, rid) IN
        /\ Commit(out)
        /\ last' = [op |-> op, actor |-> user, target |-> rid,
                    result |-> out.result, detail |-> out.detail]
    /\ UNCHANGED <<clubs, channels, subs, inflight>>
    /\ UNCHANGED content

\* accept(), reject() or cancel() called on a request just loaded, by code
\* that is not an endpoint
Method(op, rid) ==
    /\ rid \in DOMAIN requests
    /\ LET out == Transition(op, DB, Instance(rid), "none") IN
        /\ Commit(out)
        /\ last' = [op |-> op, actor |-> 0, target |-> rid,
                    result |-> out.result, detail |-> out.detail]
    /\ UNCHANGED <<clubs, channels, subs, inflight>>
    /\ UNCHANGED content

-----------------------------------------------------------------------------
(* api/views.py: ClubRoleViewSet, ClubMembershipViewSet *)

Done(op, user, target, result) ==
    last' = [op |-> op, actor |-> user, target |-> target,
             result |-> result, detail |-> ""]

\* GenericAPIView.get_object() of ClubRoleViewSet
role_get_object(method, user, role) ==
    IF ClubRoleFilter(user, role) = {}
    THEN "NotFound"
    ELSE IF Cardinality(ClubRoleFilter(user, role)) > 1
    THEN "MultipleObjectsReturned"
    ELSE IF ~ClubRolePermission(method, user, role)
    THEN "PermissionDenied"
    ELSE "ok"

\* on_delete=CASCADE of ClubMembership.club_role
MembershipsOf(gone) == {m \in DOMAIN memberships : memberships[m].club_role \in gone}

\* POST of a ClubRole: no permission class looks at the request
RoleCreate(user, club, privilege) ==
    /\ club \in DOMAIN clubs
    /\ FreeIds(roles, RoleIds) # {}
    /\ roles' = Insert(roles, NewId(roles, RoleIds), DefaultRole(club, privilege))
    /\ Done("role_create", user, NewId(roles, RoleIds), "ok")
    /\ UNCHANGED <<clubs, channels, subs, memberships, requests, inflight>>
    /\ UNCHANGED content

\* PATCH of a ClubRole with a club: club is a writable field of the serializer
RoleUpdate(user, role, club) ==
    /\ role \in DOMAIN roles
    /\ club \in DOMAIN clubs
    /\ roles' = IF role_get_object("PATCH", user, role) = "ok"
                THEN [roles EXCEPT ![role].club = club]
                ELSE roles
    /\ Done("role_update", user, role, role_get_object("PATCH", user, role))
    /\ UNCHANGED <<clubs, channels, subs, memberships, requests, inflight>>
    /\ UNCHANGED content

RoleDelete(user, role) ==
    /\ role \in DOMAIN roles
    /\ IF role_get_object("DELETE", user, role) = "ok"
       THEN /\ roles' = Delete(roles, {role})
            /\ memberships' = Delete(memberships, MembershipsOf({role}))
       ELSE UNCHANGED <<roles, memberships>>
    /\ Done("role_delete", user, role, role_get_object("DELETE", user, role))
    /\ UNCHANGED <<clubs, channels, subs, requests, inflight>>
    /\ UNCHANGED content

\* POST of a ClubMembership
MembershipCreate(user, member, role) ==
    /\ role \in DOMAIN roles
    /\ FreeIds(memberships, MembershipIds) # {}
    /\ IF ClubMembershipPermission("POST", user)
       THEN /\ memberships' = Insert(memberships,
                                     NewId(memberships, MembershipIds),
                                     [user |-> member, club_role |-> role])
            /\ Done("membership_create", user,
                    NewId(memberships, MembershipIds), "ok")
       ELSE /\ memberships' = memberships
            /\ Done("membership_create", user, 0, "PermissionDenied")
    /\ UNCHANGED <<clubs, channels, subs, roles, requests, inflight>>
    /\ UNCHANGED content

\* ClubMembershipViewSet.update
membership_update(user, m, member, role) ==
    IF ~ClubMembershipObjectPermission("PUT", user, m)
    THEN "PermissionDenied"
    ELSE IF memberships[m].user # member
    THEN "ValidationError"
    ELSE IF ~has_role(roles[memberships[m].club_role].club, role)
    THEN "ValidationError"
    ELSE "ok"

MembershipUpdate(user, m, member, role) ==
    /\ m \in DOMAIN memberships
    /\ role \in DOMAIN roles
    /\ memberships' = IF membership_update(user, m, member, role) = "ok"
                      THEN [memberships EXCEPT ![m].user = member,
                                               ![m].club_role = role]
                      ELSE memberships
    /\ Done("membership_update", user, m, membership_update(user, m, member, role))
    /\ UNCHANGED <<clubs, channels, subs, roles, requests, inflight>>
    /\ UNCHANGED content

MembershipDelete(user, m) ==
    /\ m \in DOMAIN memberships
    /\ IF ClubMembershipObjectPermission("DELETE", user, m)
       THEN /\ memberships' = Delete(memberships, {m})
            /\ Done("membership_delete", user, m, "ok")
       ELSE /\ memberships' = memberships
            /\ Done("membership_delete", user, m, "PermissionDenied")
    /\ UNCHANGED <<clubs, channels, subs, roles, requests, inflight>>
    /\ UNCHANGED content

-----------------------------------------------------------------------------
(* The endpoints, one request at a time *)

\* Two clubs with their channels; user 1 represents club 1
InitApi ==
    /\ clubs = [c \in {1, 2} |-> TheClubs[c]]
    /\ channels = [c \in {1, 2} |-> DefaultChannel(c, TheClubs[c].name)]
    /\ subs = << >>
    /\ roles = (1 :> DefaultRole(1, PRIVILEGE_REP))
    /\ memberships = (1 :> [user |-> 1, club_role |-> 1])
    /\ requests = << >>
    /\ inflight = [h \in Callers |-> NoInst]
    /\ NoContent
    /\ last = NoCall

NextApi ==
    \/ \E user \in Requesters, club \in ClubIds : RequestCreate(user, club)
    \/ \E op \in {"accept", "reject", "cancel"}, user \in AllUsers, rid \in RequestIds :
          RequestAction(op, user, rid)
    \/ \E op \in {"accept", "reject", "cancel"}, rid \in RequestIds : Method(op, rid)

\* The requests, roles and members that SpecMembers sends
RoleMakers == {12}
NewMembers == {12}

NextMembers ==
    \/ \E user \in Requesters, club \in ClubIds :
          Cardinality(DOMAIN requests) < MaxAsked /\ RequestCreate(user, club)
    \/ \E op \in {"accept", "reject", "cancel"}, rid \in RequestIds : Method(op, rid)
    \/ \E user \in RoleMakers, club \in ClubIds :
          RoleCreate(user, club, PRIVILEGE_MEM)
    \/ \E user \in AllUsers, role \in RoleIds, club \in ClubIds :
          RoleUpdate(user, role, club)
    \/ \E user \in AllUsers, role \in RoleIds : RoleDelete(user, role)
    \/ \E user \in AllUsers, member \in NewMembers, role \in RoleIds :
          MembershipCreate(user, member, role)
    \/ \E user \in AllUsers, m \in MembershipIds, member \in NewMembers, role \in RoleIds :
          MembershipUpdate(user, m, member, role)
    \/ \E user \in AllUsers, m \in MembershipIds : MembershipDelete(user, m)

SpecMembers == InitApi /\ [][NextMembers]_vars

SpecApi == InitApi /\ [][NextApi]_vars

-----------------------------------------------------------------------------
(* Properties of the endpoints *)

\* C7: through the accept endpoint, a representative of the request's club
\* who accepts a PENDING request is let through, and the request becomes
\* ACCEPTED with the requester a member of the club.
C7_RepresentativeMayAccept ==
    [][\A user \in AllUsers, rid \in RequestIds :
        (/\ last'.op = "accept"
         /\ last'.actor = user
         /\ last'.target = rid
         /\ rid \in DOMAIN requests
         /\ has_rep(requests[rid].club, user)
         /\ requests[rid].status = REQUEST_STATUS_PENDING)
        => /\ last'.result = "ok"
           /\ AcceptedWithMember(rid)']_vars

\* The user may not call `op` on the request: accept and reject are for the
\* representatives of the club, cancel is for the requester
NotTheActor(op, user, rid) ==
    \/ op \in {"accept", "reject"} /\ ~has_rep(requests[rid].club, user)
    \/ op = "cancel" /\ requests[rid].user # user

C9_OnlyAcceptOrSecretaryAddsMembers ==
    [][\A u \in AllUsers, c \in ClubIds :
        (~has_member(c, u) /\ has_member(c, u)')
        => \/ /\ last'.op = "accept"
              /\ last'.result = "ok"
              /\ \E r \in DOMAIN requests :
                    /\ last'.target = r
                    /\ requests[r].user = u
                    /\ requests[r].club = c
                    /\ requests[r].status = REQUEST_STATUS_PENDING
           \/ /\ last'.op = "membership_create"
              /\ last'.result = "ok"
              /\ is_secretary(last'.actor)]_vars

-----------------------------------------------------------------------------
(* models.py: Club.save, Club.delete, Channel *)

ClubDB == [clubs |-> clubs, channels |-> channels]

\* Channel.objects.create(club=...): Channel.club is a OneToOneField, so the
\* store refuses a second channel of one club
Channel_create(cdb, club, name, fail) ==
    IF fail = "channel" \/ \E ch \in DOMAIN cdb.channels : cdb.channels[ch].club = club
    THEN [outcome |-> "fault", db |-> cdb]
    ELSE IF FreeIds(cdb.channels, ChannelIds) = {}
    THEN [outcome |-> "full", db |-> cdb]
    ELSE [outcome |-> "ok",
          db |-> [cdb EXCEPT !.channels =
                    Insert(cdb.channels, NewId(cdb.channels, ChannelIds),
                           DefaultChannel(club, name))]]

\* models.Model.save() of a Club: an INSERT when pk is not set, else an UPDATE
Model_save(cdb, pk, name, fail) ==
    IF fail = "club"
    THEN [outcome |-> "fault", db |-> cdb, pk |-> pk]
    ELSE IF pk # Null
    THEN [outcome |-> "ok", db |-> [cdb EXCEPT !.clubs[pk].name = name], pk |-> pk]
    ELSE IF FreeIds(cdb.clubs, ClubIds) = {}
    THEN [outcome |-> "full", db |-> cdb, pk |-> pk]
    ELSE [outcome |-> "ok",
          db |-> [cdb EXCEPT !.clubs = Insert(cdb.clubs, NewId(cdb.clubs, ClubIds),
                                              [name |-> name])],
          pk |-> NewId(cdb.clubs, ClubIds)]

\* A save that creates no channel
save_without_channel(cdb, pk, name, fail) ==
    [result |-> Raised(Model_save(cdb, pk, name, fail).outcome),
     db |-> Model_save(cdb, pk, name, fail).db]

\* Club.save
Club_save(cdb, pk, name, fail) ==
    IF pk = Null
    THEN LET saved == Model_save(cdb, pk, name, fail)
             block == IF saved.outcome # "ok"
                      THEN [outcome |-> saved.outcome, db |-> saved.db]
                      ELSE Channel_create(saved.db, saved.pk, name, fail)
         IN  [result |-> Raised(block.outcome), db |-> atomic(cdb, block)]
    ELSE [result |-> Raised(Model_save(cdb, pk, name, fail).outcome),
          db |-> Model_save(cdb, pk, name, fail).db]

SubscriptionsOf(user, channel) ==
    {s \in DOMAIN subs : subs[s].user = user /\ subs[s].channel = channel}

has_subscriber(channel, user) == SubscriptionsOf(user, channel) # {}

\* Club(name=...).save() of a new club
ClubCreate(name, fail) ==
    /\ LET out == Club_save(ClubDB, Null, name, fail) IN
        /\ out.result # "full"
        /\ clubs' = out.db.clubs
        /\ channels' = out.db.channels
        /\ last' = [op |-> "club_save", actor |-> 0, target |-> 0,
                    result |-> out.result, detail |-> "new"]
    /\ UNCHANGED <<subs, roles, memberships, requests, inflight>>
    /\ UNCHANGED content

\* save() of a club that is in the store
ClubUpdate(club, name, fail) ==
    /\ club \in DOMAIN clubs
    /\ LET out == Club_save(ClubDB, club, name, fail) IN
        /\ clubs' = out.db.clubs
        /\ channels' = out.db.channels
        /\ last' = [op |-> "club_save", actor |-> 0, target |-> club,
                    result |-> out.result, detail |-> "existing"]
    /\ UNCHANGED <<subs, roles, memberships, requests, inflight>>
    /\ UNCHANGED content

\* Club.delete(): every foreign key to the club is on_delete=CASCADE, and so
\* are Post.channel, FeedbackReply.parent and the rows of ClubProject
Club_delete(club) ==
    LET chs == {ch \in DOMAIN channels : channels[ch].club = club}
        rls == {r \in DOMAIN roles : roles[r].club = club}
        fbs == {f \in DOMAIN feedbacks : feedbacks[f].club = club}
    IN  /\ clubs' = Delete(clubs, {club})
        /\ channels' = Delete(channels, chs)
        /\ subs' = Delete(subs, {s \in DOMAIN subs : subs[s].channel \in chs})
        /\ roles' = Delete(roles, rls)
        /\ memberships' = Delete(memberships, MembershipsOf(rls))
        /\ requests' = Delete(requests,
                              {r \in DOMAIN requests : requests[r].club = club})
        /\ posts' = Delete(posts, {p \in DOMAIN posts : posts[p].channel \in chs})
        /\ conversations' = Delete(conversations,
                                   {c \in DOMAIN conversations :
                                       conversations[c].channel \in chs})
        /\ feedbacks' = Delete(feedbacks, fbs)
        /\ replies' = Delete(replies,
                             {r \in DOMAIN replies : replies[r].parent \in fbs})
        /\ projects' = [p \in DOMAIN projects |->
                           [projects[p] EXCEPT !.clubs = @ \ {club}]]

ClubDelete(club) ==
    /\ club \in DOMAIN clubs
    /\ Club_delete(club)
    /\ last' = [op |-> "club_delete", actor |-> 0, target |-> club,
                result |-> "ok", detail |-> ""]
    /\ UNCHANGED <<inflight, project_memberships, listed>>

\* Channel.subscribe
Subscribe(user, channel) ==
    /\ channel \in DOMAIN channels
    /\ LET got == get_or_create(subs, SubIds, [user |-> user, channel |-> channel])
       IN  /\ got.outcome # "full"
           /\ subs' = got.table
           /\ last' = [op |-> "subscribe", actor |-> user, target |-> channel,
                       result |-> IF got.outcome \in {"got", "created"}
                                  THEN "ok" ELSE "error",
                       detail |-> got.outcome]
    /\ UNCHANGED <<clubs, channels, roles, memberships, requests, inflight>>
    /\ UNCHANGED content

\* Channel.unsubscribe
Unsubscribe(user, channel) ==
    /\ channel \in DOMAIN channels
    /\ subs' = Delete(subs, SubscriptionsOf(user, channel))
    /\ last' = [op |-> "unsubscribe", actor |-> user, target |-> channel,
                result |-> "ok", detail |-> ""]
    /\ UNCHANGED <<clubs, channels, roles, memberships, requests, inflight>>
    /\ UNCHANGED content

\* The users who subscribe in SpecChannel
Subscribers == {1, 12}

\* An empty store
InitClub ==
    /\ clubs = << >>
    /\ channels = << >>
    /\ subs = << >>
    /\ roles = << >>
    /\ memberships = << >>
    /\ requests = << >>
    /\ inflight = [h \in Callers |-> NoInst]
    /\ NoContent
    /\ last = NoCall

NextClub ==
    \/ \E name \in ClubNames, fail \in {"none", "club", "channel"} :
          ClubCreate(name, fail)
    \/ \E club \in ClubIds, name \in ClubNames, fail \in {"none", "club"} :
          ClubUpdate(club, name, fail)
    \/ \E club \in ClubIds : ClubDelete(club)

SpecClub == InitClub /\ [][NextClub]_vars

\* Every club of TheClubs with its channel, and no subscription
InitChannel ==
    /\ clubs = TheClubs
    /\ channels = [c \in ClubIds |-> DefaultChannel(c, TheClubs[c].name)]
    /\ subs = << >>
    /\ roles = << >>
    /\ memberships = << >>
    /\ requests = << >>
    /\ inflight = [h \in Callers |-> NoInst]
    /\ NoContent
    /\ last = NoCall

NextChannel ==
    \/ \E user \in Subscribers, channel \in ChannelIds : Subscribe(user, channel)
    \/ \E user \in Subscribers, channel \in ChannelIds : Unsubscribe(user, channel)
    \/ \E club \in ClubIds : ClubDelete(club)

SpecChannel == InitChannel /\ [][NextChannel]_vars

-----------------------------------------------------------------------------
(* Properties of clubs and channels, checked under SpecClub and SpecChannel *)

ChannelsOf(club) == {ch \in DOMAIN channels : channels[ch].club = club}

\* C6: every club has exactly one channel: the channel is created with the
\* club (a failed creation of the channel leaves no club) and a later save
\* of the club adds none.
C6_OneChannelPerClub ==
    \A club \in DOMAIN clubs : Cardinality(ChannelsOf(club)) = 1

\* a club that is in the store was saved again
C6_Witness ==
    /\ last.op = "club_save"
    /\ last.detail = "existing"
    /\ last.result = "ok"
    /\ last.target \in DOMAIN clubs
    /\ Cardinality(ChannelsOf(last.target)) = 1

\* C10: for every user and channel there is at most one subscription row;
\* subscribe leaves exactly one (also when the user had subscribed),
\* unsubscribe raises nothing and leaves none (also when the user had not
\* subscribed), and has_subscriber changes with no other call.
C10_SubscribeIdempotent ==
    [][\A u \in AllUsers, ch \in ChannelIds :
        /\ Cardinality(SubscriptionsOf(u, ch))' <= 1
        /\ (last'.op = "subscribe" /\ last'.actor = u /\ last'.target = ch)
           => /\ last'.result = "ok"
              /\ Cardinality(SubscriptionsOf(u, ch))' = 1
              /\ has_subscriber(ch, u)'
        /\ (last'.op = "unsubscribe" /\ last'.actor = u /\ last'.target = ch)
           => /\ last'.result = "ok"
              /\ Cardinality(SubscriptionsOf(u, ch))' = 0
              /\ ~has_subscriber(ch, u)'
        /\ (/\ ~(/\ last'.op \in {"subscribe", "unsubscribe"}
                 /\ last'.actor = u
                 /\ last'.target = ch)
            /\ ch \in DOMAIN channels')
           => has_subscriber(ch, u)' = has_subscriber(ch, u)]_vars

\* a user who had subscribed subscribed again
C10_Witness ==
    /\ last.op = "subscribe"
    /\ last.detail = "got"
    /\ Cardinality(SubscriptionsOf(last.actor, last.target)) = 1

-----------------------------------------------------------------------------
(* Query parameters of a list or detail call *)

\* A query string: parameter name -> its text, a sequence of characters
NoParams == << >>

DigitValue == [d \in {"0", "1", "2", "3", "4", "5", "6", "7", "8", "9"} |->
                 CASE d = "0" -> 0 [] d = "1" -> 1 [] d = "2" -> 2 [] d = "3" -> 3
                   [] d = "4" -> 4 [] d = "5" -> 5 [] d = "6" -> 6 [] d = "7" -> 7
                   [] d = "8" -> 8 [] d = "9" -> 9]

RECURSIVE Numeral(_)
Numeral(text) ==
    IF Len(text) = 0
    THEN 0
    ELSE 10 * Numeral(SubSeq(text, 1, Len(text) - 1)) + DigitValue[text[Len(text)]]

\* int(text) of a str: an optional sign and decimal digits, else ValueError
int(text) ==
    LET signed == Len(text) > 0 /\ text[1] \in {"-", "+"}
        digits == IF signed THEN Tail(text) ELSE text
    IN  IF Len(digits) = 0 \/ \E i \in 1..Len(digits) : digits[i] \notin DOMAIN DigitValue
        THEN [raised |-> "ValueError", value |-> 0]
        ELSE [raised |-> "",
              value |-> IF signed /\ text[1] = "-"
                        THEN 0 - Numeral(digits) ELSE Numeral(digits)]

\* int(request.query_params.get(name, default))
int_param(params, name, default) ==
    IF name \in DOMAIN params
    THEN int(params[name])
    ELSE [raised |-> "", value |-> default]

-----------------------------------------------------------------------------
(* api/views.py: ClubViewSet, with ClubFilter and ClubPermission *)

\* ClubFilter.filter_queryset: the rows the queryset yields for one Club: the
\* club itself, or with only_my one row for each membership of the club
\* whose user id matches
ClubFilter(user, only_my, club) ==
    IF only_my
    THEN {m \in DOMAIN memberships :
            /\ roles[memberships[m].club_role].club = club
            /\ id__contains(memberships[m].user, user)}
    ELSE {0}

\* A permission that lets whoever may update also delete
ClubPermission_without_delete(method, user, club) ==
    IF method \in SAFE_METHODS
    THEN TRUE
    ELSE is_secretary(user) \/ has_rep(club, user)

\* ClubPermission.has_object_permission
ClubPermission(method, user, club) ==
    IF method \in SAFE_METHODS
    THEN TRUE
    ELSE IF method = "DELETE"
    THEN is_secretary(user)
    ELSE is_secretary(user) \/ has_rep(club, user)

\* GenericAPIView.get_object() of ClubViewSet
club_get_object(method, user, club, params) ==
    LET only_my == int_param(params, "only_my", 0) IN
    IF only_my.raised # ""
    THEN only_my.raised
    ELSE IF ClubFilter(user, only_my.value # 0, club) = {}
    THEN "NotFound"
    ELSE IF Cardinality(ClubFilter(user, only_my.value # 0, club)) > 1
    THEN "MultipleObjectsReturned"
    ELSE IF ~ClubPermission(method, user, club)
    THEN "PermissionDenied"
    ELSE "ok"

\* GET clubs/<club>/
ClubRetrieve(user, club) ==
    /\ club \in DOMAIN clubs
    /\ Done("club_retrieve", user, club, club_get_object("GET", user, club, NoParams))
    /\ UNCHANGED <<workflow, content>>

\* PUT clubs/<club>/ with a name
ClubPut(user, club, name) ==
    /\ club \in DOMAIN clubs
    /\ LET got == club_get_object("PUT", user, club, NoParams)
           out == Club_save(ClubDB, club, name, "none")
       IN  /\ clubs' = IF got = "ok" THEN out.db.clubs ELSE clubs
           /\ channels' = IF got = "ok" THEN out.db.channels ELSE channels
           /\ Done("club_update", user, club, got)
    /\ UNCHANGED <<subs, roles, memberships, requests, inflight>>
    /\ UNCHANGED content

\* DELETE clubs/<club>/
ClubDestroy(user, club) ==
    /\ club \in DOMAIN clubs
    /\ LET got == club_get_object("DELETE", user, club, NoParams) IN
        /\ IF got = "ok"
           THEN Club_delete(club)
           ELSE UNCHANGED <<clubs, channels, subs, roles, memberships, requests,
                            posts, conversations, feedbacks, replies, projects>>
        /\ Done("club_destroy", user, club, got)
    /\ UNCHANGED <<inflight, project_memberships, listed>>

\* The roles of club 1 that the calls below find in the store
TheRoles == (1 :> DefaultRole(1, PRIVILEGE_REP)) @@ (2 :> DefaultRole(1, PRIVILEGE_MEM))

\* The membership tables of up to MaxMemberships rows in the roles of TheRoles
SomeMemberships ==
    UNION {[1..n -> [user : AllUsers, club_role : DOMAIN TheRoles]] :
             n \in 0..MaxMemberships}

\* Two clubs with their channels; club 1 has a representative role and a
\* member role, held by any of the users
InitAuth ==
    /\ clubs = [c \in {1, 2} |-> TheClubs[c]]
    /\ channels = [c \in {1, 2} |-> DefaultChannel(c, TheClubs[c].name)]
    /\ subs = << >>
    /\ roles = TheRoles
    /\ memberships \in SomeMemberships
    /\ requests = << >>
    /\ inflight = [h \in Callers |-> NoInst]
    /\ NoContent
    /\ last = NoCall

NextClubApi ==
    \/ \E user \in AllUsers, club \in ClubIds : ClubRetrieve(user, club)
    \/ \E user \in AllUsers, club \in ClubIds, name \in ClubNames :
            ClubPut(user, club, name)
    \/ \E user \in AllUsers, club \in ClubIds : ClubDestroy(user, club)

SpecClubApi == InitAuth /\ [][NextClubApi]_vars

\* C11: every user may read a club; an update of a club succeeds exactly for a
\* secretary or a representative of that club; a delete succeeds exactly for a
\* secretary, so a representative who is not a secretary cannot delete
C11_ClubAuthorization ==
    [][\A club \in ClubIds :
        (last'.target = club /\ club \in DOMAIN clubs) =>
            /\ last'.op = "club_retrieve" => last'.result = "ok"
            /\ last'.op = "club_update" =>
                 (last'.result = "ok" <=>
                    (is_secretary(last'.actor) \/ has_rep(club, last'.actor)))
            /\ last'.op = "club_update" => last'.result \in {"ok", "PermissionDenied"}
            /\ last'.op = "club_destroy" =>
                 /\ last'.result = "ok" <=> is_secretary(last'.actor)
                 /\ last'.result \in {"ok", "PermissionDenied"}
                 /\ last'.result = "ok" <=> club \notin DOMAIN clubs'
                 /\ last'.result # "ok" => UNCHANGED <<workflow, content>>]_vars

\* A representative who is not a secretary was refused the delete of the club
C11_Witness ==
    /\ last.op = "club_destroy"
    /\ last.result = "PermissionDenied"
    /\ last.target \in DOMAIN clubs
    /\ has_rep(last.target, last.actor)

-----------------------------------------------------------------------------
(* api/views.py: FeedbackViewSet, FeedbackReplyViewSet *)

MaxFeedbacks == 2
MaxReplies == 2

FeedbackIds == 1..MaxFeedbacks
ReplyIds == 1..MaxReplies

\* created = auto_now_add: later than every row of the table
created_now(table) ==
    IF DOMAIN table = {}
    THEN 1
    ELSE 1 + (CHOOSE t \in {table[i].created : i \in DOMAIN table} :
                \A i \in DOMAIN table : table[i].created <= t)

\* A plain foreign key: any number of rows for one parent
ForeignKey(table, parent) == TRUE

\* parent = OneToOneField('Feedback'): unique, so no second row for one parent
OneToOneField(table, parent) ==
    \A r \in DOMAIN table : table[r].parent # parent

\* FeedbackViewSet.create
feedback_create(user, club) ==
    IF club \notin DOMAIN clubs
    THEN "ValidationError"
    ELSE IF ~has_member(club, user)
    THEN "PermissionDenied"
    ELSE "ok"

FeedbackCreate(user, club) ==
    /\ FreeIds(feedbacks, FeedbackIds) # {}
    /\ feedbacks' = IF feedback_create(user, club) = "ok"
                    THEN Insert(feedbacks, NewId(feedbacks, FeedbackIds),
                                [club |-> club, author |-> user,
                                 created |-> created_now(feedbacks)])
                    ELSE feedbacks
    /\ Done("feedback_create", user, club, feedback_create(user, club))
    /\ UNCHANGED workflow
    /\ UNCHANGED <<posts, replies, projects, project_memberships, listed>>
    /\ UNCHANGED conversations

\* FeedbackReplyViewSet.create: is_valid() of the serializer (parent exists
\* and, by the validator of the unique field, has no reply), then the check
\* on the current user
feedback_reply_create(user, feedback) ==
    IF feedback \notin DOMAIN feedbacks
    THEN "ValidationError"
    ELSE IF ~OneToOneField(replies, feedback)
    THEN "ValidationError"
    ELSE IF ~has_rep(feedbacks[feedback].club, user)
    THEN "PermissionDenied"
    ELSE "ok"

FeedbackReplyCreate(user, feedback) ==
    /\ FreeIds(replies, ReplyIds) # {}
    /\ replies' = IF feedback_reply_create(user, feedback) = "ok"
                  THEN Insert(replies, NewId(replies, ReplyIds),
                              [parent |-> feedback])
                  ELSE replies
    /\ Done("reply_create", user, feedback, feedback_reply_create(user, feedback))
    /\ UNCHANGED workflow
    /\ UNCHANGED <<posts, feedbacks, projects, project_memberships, listed>>
    /\ UNCHANGED conversations

NextReply ==
    \/ \E user \in AllUsers, club \in ClubIds : FeedbackCreate(user, club)
    \/ \E user \in AllUsers, feedback \in FeedbackIds :
            FeedbackReplyCreate(user, feedback)

SpecReply == InitAuth /\ [][NextReply]_vars

RepliesOf(feedback) == {r \in DOMAIN replies : replies[r].parent = feedback}

\* C12: a feedback has at most one reply; a create of a reply to a feedback
\* that already has one fails for whoever asks and adds no row
C12_OneReplyPerFeedback ==
    /\ [](\A f \in FeedbackIds : Cardinality(RepliesOf(f)) <= 1)
    /\ [][\A f \in FeedbackIds :
            (last'.op = "reply_create" /\ last'.target = f /\ RepliesOf(f) # {}) =>
                /\ last'.result # "ok"
                /\ replies' = replies]_vars

\* A representative of the club was refused a second reply to a feedback
C12_Witness ==
    /\ last.op = "reply_create"
    /\ last.result = "ValidationError"
    /\ last.target \in DOMAIN feedbacks
    /\ RepliesOf(last.target) # {}
    /\ has_rep(feedbacks[last.target].club, last.actor)

-----------------------------------------------------------------------------
(* api/views.py: PostViewSet, with PostFilter and PostPermission *)

MaxPosts == 2

PostIds == 1..MaxPosts

\* The query strings of the calls on a Post
PostParams == {NoParams} \cup {[channel_id |-> <<d>>] : d \in {"1", "2"}}

\* PostFilter.filter_queryset: the rows the queryset yields for one Post: the
\* post itself when channel_id names its channel, else one row for each
\* subscription to its channel whose user id matches
PostFilter(user, channel_id, post) ==
    IF channel_id # -1
    THEN IF posts[post].channel = channel_id THEN {0} ELSE {}
    ELSE {s \in DOMAIN subs :
            /\ subs[s].channel = posts[post].channel
            /\ id__contains(subs[s].user, user)}

\* A permission that lets every user write
PostPermission_open(method, user, post) == TRUE

\* PostPermission.has_object_permission
PostPermission(method, user, post) ==
    IF method \in SAFE_METHODS
    THEN TRUE
    ELSE has_rep(channels[posts[post].channel].club, user)

\* GenericAPIView.get_object() of PostViewSet
post_get_object(method, user, post, params) ==
    LET channel_id == int_param(params, "channel_id", -1)
        order == int_param(params, "order", -1)
    IN  IF channel_id.raised # "" \/ order.raised # ""
        THEN "ParseError"
        ELSE IF PostFilter(user, channel_id.value, post) = {}
        THEN "NotFound"
        ELSE IF Cardinality(PostFilter(user, channel_id.value, post)) > 1
        THEN "MultipleObjectsReturned"
        ELSE IF ~PostPermission(method, user, post)
        THEN "PermissionDenied"
        ELSE "ok"

\* PostViewSet.create
post_create(user, channel) ==
    IF channel \notin DOMAIN channels
    THEN "ValidationError"
    ELSE IF ~has_rep(channels[channel].club, user)
    THEN "PermissionDenied"
    ELSE "ok"

PostCreate(user, channel) ==
    /\ FreeIds(posts, PostIds) # {}
    /\ posts' = IF post_create(user, channel) = "ok"
                THEN Insert(posts, NewId(posts, PostIds), [channel |-> channel])
                ELSE posts
    /\ Done("post_create", user, channel, post_create(user, channel))
    /\ UNCHANGED workflow
    /\ UNCHANGED <<feedbacks, replies, projects, project_memberships, listed>>
    /\ UNCHANGED conversations

\* The response of a call on a Post, with the query string of the call
PostDone(op, user, post, params) ==
    last' = [op |-> op, actor |-> user, target |-> post,
             result |-> post_get_object(IF op = "post_retrieve" THEN "GET"
                                        ELSE IF op = "post_update" THEN "PUT"
                                        ELSE "DELETE", user, post, params),
             detail |-> params]

\* GET posts/<post>/
PostRetrieve(user, post, params) ==
    /\ post \in DOMAIN posts
    /\ PostDone("post_retrieve", user, post, params)
    /\ UNCHANGED <<workflow, content>>

\* PUT posts/<post>/ with a channel: channel is a writable field
PostUpdate(user, post, channel, params) ==
    /\ post \in DOMAIN posts
    /\ channel \in DOMAIN channels
    /\ posts' = IF post_get_object("PUT", user, post, params) = "ok"
                THEN [posts EXCEPT ![post].channel = channel]
                ELSE posts
    /\ PostDone("post_update", user, post, params)
    /\ UNCHANGED workflow
    /\ UNCHANGED <<feedbacks, replies, projects, project_memberships, listed>>
    /\ UNCHANGED conversations

\* DELETE posts/<post>/
PostDestroy(user, post, params) ==
    /\ post \in DOMAIN posts
    /\ posts' = IF post_get_object("DELETE", user, post, params) = "ok"
                THEN Delete(posts, {post})
                ELSE posts
    /\ PostDone("post_destroy", user, post, params)
    /\ UNCHANGED workflow
    /\ UNCHANGED <<feedbacks, replies, projects, project_memberships, listed>>
    /\ UNCHANGED conversations

\* User 1 holds role 1 and user 12 holds role 2
TheMembers ==
    (1 :> [user |-> 1, club_role |-> 1]) @@ (2 :> [user |-> 12, club_role |-> 2])

\* The users who subscribe to channels before the calls on posts
Readers == {12}

InitPost ==
    /\ clubs = [c \in {1, 2} |-> TheClubs[c]]
    /\ channels = [c \in {1, 2} |-> DefaultChannel(c, TheClubs[c].name)]
    /\ subs = << >>
    /\ roles = TheRoles
    /\ memberships = TheMembers
    /\ requests = << >>
    /\ inflight = [h \in Callers |-> NoInst]
    /\ NoContent
    /\ last = NoCall

NextPost ==
    \/ \E user \in Readers, channel \in ChannelIds : Subscribe(user, channel)
    \/ \E user \in AllUsers, channel \in ChannelIds : PostCreate(user, channel)
    \/ \E user \in AllUsers, post \in PostIds, params \in PostParams :
            PostRetrieve(user, post, params)
    \/ \E user \in AllUsers, post \in PostIds, channel \in ChannelIds,
          params \in PostParams : PostUpdate(user, post, channel, params)
    \/ \E user \in AllUsers, post \in PostIds, params \in PostParams :
            PostDestroy(user, post, params)

SpecPost == InitPost /\ [][NextPost]_vars

\* C13: no user is refused the read of a post, and every user who asks for it
\* with its channel gets it; a create, update or delete of a post succeeds
\* only for a representative of the club that owns the post's channel; a
\* create in a club's channel by anyone else is answered with
\* PermissionDenied and adds no post
C13_PostAuthorization ==
    [][/\ \A post \in DOMAIN posts :
            (last'.op = "post_retrieve" /\ last'.target = post) =>
                /\ last'.result # "PermissionDenied"
                /\ int_param(last'.detail, "channel_id", -1).value = posts[post].channel
                      => last'.result = "ok"
       /\ \A post \in DOMAIN posts :
            (last'.op \in {"post_update", "post_destroy"} /\ last'.target = post) =>
                IF last'.result = "ok"
                THEN has_rep(channels[posts[post].channel].club, last'.actor)
                ELSE posts' = posts
       /\ \A channel \in DOMAIN channels :
            (last'.op = "post_create" /\ last'.target = channel) =>
                IF has_rep(channels[channel].club, last'.actor)
                THEN last'.result = "ok"
                ELSE last'.result = "PermissionDenied" /\ posts' = posts]_vars

\* A plain member of the club was refused the create of a post in its channel
C13_Witness ==
    /\ last.op = "post_create"
    /\ last.result = "PermissionDenied"
    /\ has_member(channels[last.target].club, last.actor)
    /\ posts # << >>

-----------------------------------------------------------------------------
(* api/views.py: ProjectMembershipViewSet.create, with the validation of
   ProjectMembershipSerializer *)

MaxProjects == 1
MaxProjectMemberships == 2

ProjectIds == 1..MaxProjects
ProjectMembershipIds == 1..MaxProjectMemberships

\* Project.has_leader
has_leader(project, user) == projects[project].leader = user

\* Project.has_club_rep
has_club_rep(project, user) ==
    \E c \in projects[project].clubs : has_rep(c, user)

\* Project.has_club_member
has_club_member(project, user) ==
    \E c \in projects[project].clubs : has_member(c, user)

\* A validation that does not look at the specified club
validate_project_only(user, club, project) ==
    IF ~has_club_member(project, user)
    THEN "ValidationError"
    ELSE ""

\* ProjectMembershipSerializer.validate
validate(user, club, project) ==
    IF ~has_club_member(project, user)
    THEN "ValidationError"
    ELSE IF ~has_member(club, user)
    THEN "ValidationError"
    ELSE ""

\* ProjectMembershipViewSet.create: is_valid() of the serializer (the related
\* rows exist, then validate), then the check on the current user
project_membership_create(actor, user, club, project) ==
    IF user \notin AllUsers \/ club \notin DOMAIN clubs \/ project \notin DOMAIN projects
    THEN "ValidationError"
    ELSE IF validate(user, club, project) # ""
    THEN validate(user, club, project)
    ELSE IF ~(has_leader(project, actor) \/ has_club_rep(project, actor))
    THEN "PermissionDenied"
    ELSE "ok"

ProjectMembershipCreate(actor, user, club, project) ==
    /\ FreeIds(project_memberships, ProjectMembershipIds) # {}
    /\ project_memberships' =
          IF project_membership_create(actor, user, club, project) = "ok"
          THEN Insert(project_memberships,
                      NewId(project_memberships, ProjectMembershipIds),
                      [user |-> user, club |-> club, project |-> project])
          ELSE project_memberships
    /\ last' = [op |-> "project_membership_create", actor |-> actor,
                target |-> project,
                result |-> project_membership_create(actor, user, club, project),
                detail |-> [user |-> user, club |-> club]]
    /\ UNCHANGED workflow
    /\ UNCHANGED <<posts, feedbacks, replies, projects, listed>>
    /\ UNCHANGED conversations

\* A representative role in club 1 and a member role in club 2
RolesOfBoth ==
    (1 :> DefaultRole(1, PRIVILEGE_REP)) @@ (2 :> DefaultRole(2, PRIVILEGE_MEM))

\* The users who lead a project
Leaders == {12}

\* Two clubs with a role each: user 1 represents club 1 and user 12 is a
\* member of club 2; the projects, each with a leader and some owner clubs
InitProject ==
    /\ clubs = [c \in {1, 2} |-> TheClubs[c]]
    /\ channels = [c \in {1, 2} |-> DefaultChannel(c, TheClubs[c].name)]
    /\ subs = << >>
    /\ roles = RolesOfBoth
    /\ memberships = TheMembers
    /\ requests = << >>
    /\ inflight = [h \in Callers |-> NoInst]
    /\ posts = << >>
    /\ conversations = << >>
    /\ feedbacks = << >>
    /\ replies = << >>
    /\ projects \in [ProjectIds -> [leader : Leaders, clubs : SUBSET {1, 2}]]
    /\ project_memberships = << >>
    /\ listed = << >>
    /\ last = NoCall

NextProject ==
    \E actor \in AllUsers, user \in AllUsers, club \in ClubIds, project \in ProjectIds :
        ProjectMembershipCreate(actor, user, club, project)

SpecProject == InitProject /\ [][NextProject]_vars

\* C14: a create of a project membership for (user, club, project) is
\* answered with ValidationError and writes no row unless the user is a
\* member of the specified club and a member of at least one of the owner
\* clubs of the project; when the user is both, the validation does not
\* refuse it
C14_ProjectMembershipValidated ==
    [][\A user \in AllUsers, club \in ClubIds, project \in ProjectIds :
        (/\ last'.op = "project_membership_create"
         /\ last'.target = project
         /\ last'.detail = [user |-> user, club |-> club]) =>
            IF has_member(club, user) /\ has_club_member(project, user)
            THEN last'.result # "ValidationError"
            ELSE /\ last'.result = "ValidationError"
                 /\ project_memberships' = project_memberships]_vars

\* A user who is a member of an owner club of the project, but not of the
\* specified club, was refused by the validation
C14_Witness ==
    /\ last.op = "project_membership_create"
    /\ last.result = "ValidationError"
    /\ has_club_member(last.target, last.detail.user)
    /\ ~has_member(last.detail.club, last.detail.user)
    /\ project_memberships # << >>

-----------------------------------------------------------------------------
(* api/views.py: FeedbackViewSet list, with FeedbackFilter *)

\* queryset.order_by('-created') when descending, else order_by('created')
RECURSIVE order_by(_, _, _)
order_by(table, rows, descending) ==
    IF rows = {}
    THEN << >>
    ELSE LET first == CHOOSE i \in rows :
                        \A j \in rows :
                            IF descending
                            THEN table[j].created <= table[i].created
                            ELSE table[i].created <= table[j].created
         IN  <<first>> \o order_by(table, rows \ {first}, descending)

\* FeedbackFilter.filter_queryset
FeedbackFilter(user, params) ==
    LET club_id == int_param(params, "club_id", -1)
        order == int_param(params, "order", -1)
        only_my == int_param(params, "only_my", 0)
        scope == IF ~is_secretary(user)
                 THEN {f \in DOMAIN feedbacks :
                         \/ feedbacks[f].club \in club_list(user)
                         \/ feedbacks[f].author = user}
                 ELSE DOMAIN feedbacks
        of_club == IF club_id.value # -1
                   THEN {f \in scope : feedbacks[f].club = club_id.value}
                   ELSE scope
        mine == IF only_my.value # 0
                THEN {f \in of_club : feedbacks[f].author = user}
                ELSE of_club
    IN  IF club_id.raised # "" \/ order.raised # "" \/ only_my.raised # ""
        THEN [result |-> "ParseError", rows |-> << >>]
        ELSE [result |-> "ok", rows |-> order_by(feedbacks, mine, order.value = -1)]

\* The response of a list call, with the query string of the call
Listed(op, user, out, params) ==
    /\ listed' = out.rows
    /\ last' = [op |-> op, actor |-> user, target |-> 0,
                result |-> out.result, detail |-> params]

\* GET feedbacks/
FeedbackList(user, params) ==
    /\ Listed("feedback_list", user, FeedbackFilter(user, params), params)
    /\ UNCHANGED workflow
    /\ UNCHANGED <<posts, feedbacks, replies, projects, project_memberships>>
    /\ UNCHANGED conversations

\* The query strings of the list calls on feedbacks
FeedbackParams ==
    {p \in UNION {[names -> {<<"1">>, <<"-", "1">>}] :
                    names \in SUBSET {"club_id", "only_my", "order"}} :
        "club_id" \in DOMAIN p => p["club_id"] = <<"1">>}

NextFeedback ==
    \/ \E user \in AllUsers, club \in ClubIds : FeedbackCreate(user, club)
    \/ \E user \in AllUsers, params \in FeedbackParams : FeedbackList(user, params)

SpecFeedback == InitAuth /\ [][NextFeedback]_vars

\* The feedbacks the caller may see: all for a secretary, else those of the
\* clubs the caller represents and those the caller wrote
MayList(user) ==
    {f \in DOMAIN feedbacks :
        \/ is_secretary(user)
        \/ has_rep(feedbacks[f].club, user)
        \/ feedbacks[f].author = user}

\* C15: the feedback list of a caller holds exactly the feedbacks of the
\* clubs the caller represents and those the caller wrote (all feedbacks for
\* a secretary), narrowed to club_id when it is set and to the caller's own
\* when only_my is not zero, newest first when order is -1 or unset and
\* oldest first otherwise
C15_FeedbackListExact ==
    (last.op = "feedback_list" /\ last.result = "ok") =>
        LET club_id == int_param(last.detail, "club_id", -1).value
            only_my == int_param(last.detail, "only_my", 0).value
            order == int_param(last.detail, "order", -1).value
        IN  listed = order_by(feedbacks,
                              {f \in MayList(last.actor) :
                                  /\ club_id # -1 => feedbacks[f].club = club_id
                                  /\ only_my # 0 => feedbacks[f].author = last.actor},
                              order = -1)

-----------------------------------------------------------------------------
(* api/views.py: ClubMembershipViewSet retrieve and list, with
   ClubMembershipFilter *)

\* The orders in which a queryset with no order_by can yield its rows
Orderings(rows) ==
    {seq \in [1..Cardinality(rows) -> rows] :
        \A i, j \in 1..Cardinality(rows) : seq[i] = seq[j] => i = j}

\* ClubMembershipFilter.filter_queryset
ClubMembershipFilter(params) ==
    LET club_id == int_param(params, "club_id", -1) IN
    IF club_id.raised # ""
    THEN [result |-> "ParseError", rows |-> {}]
    ELSE [result |-> "ok",
          rows |-> IF club_id.value # -1
                   THEN {m \in DOMAIN memberships :
                           roles[memberships[m].club_role].club = club_id.value}
                   ELSE DOMAIN memberships]

\* The query strings of the list calls on memberships
MembershipParams == {NoParams} \cup {[club_id |-> <<d>>] : d \in {"1", "2"}}

\* GET clubMembers/
MembershipList(user, params) ==
    /\ \E seq \in Orderings(ClubMembershipFilter(params).rows) :
          Listed("membership_list", user,
                 [result |-> ClubMembershipFilter(params).result, rows |-> seq],
                 params)
    /\ UNCHANGED workflow
    /\ UNCHANGED <<posts, feedbacks, replies, projects, project_memberships>>
    /\ UNCHANGED conversations

\* GET clubMembers/<m>/
MembershipRetrieve(user, m) ==
    /\ m \in DOMAIN memberships
    /\ Done("membership_retrieve", user, m,
            IF ClubMembershipPermission("GET", user)
               /\ ClubMembershipObjectPermission("GET", user, m)
            THEN "ok" ELSE "PermissionDenied")
    /\ UNCHANGED <<workflow, content>>

NextMembershipList ==
    \/ \E user \in AllUsers, params \in MembershipParams : MembershipList(user, params)
    \/ \E user \in AllUsers, m \in MembershipIds : MembershipRetrieve(user, m)

SpecMembershipList == InitAuth /\ [][NextMembershipList]_vars

\* The users named in the data of an update
Named == {1, 12}

NextMembership ==
    \/ \E user \in AllUsers, m \in MembershipIds : MembershipRetrieve(user, m)
    \/ \E user \in AllUsers, member \in AllUsers, role \in RoleIds :
            MembershipCreate(user, member, role)
    \/ \E user \in AllUsers, m \in MembershipIds, member \in Named,
          role \in RoleIds : MembershipUpdate(user, m, member, role)
    \/ \E user \in AllUsers, m \in MembershipIds : MembershipDelete(user, m)

SpecMembership == InitAuth /\ [][NextMembership]_vars

\* C16: the membership list returned to a caller who is no secretary holds
\* only memberships of clubs the caller is a member of
C16_ListOnlyOwnClubs ==
    (last.op = "membership_list" /\ ~is_secretary(last.actor)) =>
        \A i \in 1..Len(listed) :
            has_member(roles[memberships[listed[i]].club_role].club, last.actor)

-----------------------------------------------------------------------------
(* api/views.py: ClubViewSet list; the list calls with texts that are no
   integers *)

\* ClubFilter.filter_queryset over the clubs: no try around int(), and with
\* only_my the join yields a club once for each matching membership
ClubFilter_list(user, params) ==
    LET only_my == int_param(params, "only_my", 0) IN
    IF only_my.raised # ""
    THEN [result |-> only_my.raised, rows |-> {}]
    ELSE [result |-> "ok",
          rows |-> {<<c, m>> \in (DOMAIN clubs) \X ({0} \cup DOMAIN memberships) :
                      m \in ClubFilter(user, only_my.value # 0, c)}]

\* GET clubs/
ClubList(user, params) ==
    /\ \E seq \in Orderings(ClubFilter_list(user, params).rows) :
          Listed("club_list", user,
                 [result |-> ClubFilter_list(user, params).result,
                  rows |-> [i \in DOMAIN seq |-> seq[i][1]]],
                 params)
    /\ UNCHANGED workflow
    /\ UNCHANGED <<posts, feedbacks, replies, projects, project_memberships>>
    /\ UNCHANGED conversations

\* Texts of a query parameter: an integer, a word, the empty text, a decimal
Texts == {<<"1">>, <<"x">>, << >>, <<"1", ".", "5">>}

\* The query strings with one parameter out of names
OneParam(names) == UNION {[{name} -> Texts] : name \in names}

\* The parameters each filter reads
Reads ==
    [club_list |-> {"only_my"},
     membership_list |-> {"club_id"},
     feedback_list |-> {"club_id", "order", "only_my"}]

NextParse ==
    \/ \E user \in AllUsers, params \in {NoParams} \cup OneParam(Reads.club_list) :
            ClubList(user, params)
    \/ \E user \in AllUsers, params \in OneParam(Reads.membership_list) :
            MembershipList(user, params)
    \/ \E user \in AllUsers, params \in OneParam(Reads.feedback_list) :
            FeedbackList(user, params)

SpecParse == InitAuth /\ [][NextParse]_vars

\* C17: a list call with a parameter, among those its filter reads, whose
\* text is not an integer fails with ParseError and returns no rows; this
\* holds for each filter, ClubFilter included
C17_NonIntegerIsParseError ==
    \A op \in DOMAIN Reads :
        (/\ last.op = op
         /\ \E name \in Reads[op] \cap DOMAIN last.detail :
                int(last.detail[name]).raised # "") =>
            /\ last.result = "ParseError"
            /\ listed = << >>

-----------------------------------------------------------------------------
(* api/views.py: ClubRoleViewSet, one request at a time *)

\* GET clubRoles/<role>/
RoleRetrieve(user, role) ==
    /\ role \in DOMAIN roles
    /\ Done("role_retrieve", user, role, role_get_object("GET", user, role))
    /\ UNCHANGED <<workflow, content>>

NextRole ==
    \/ \E user \in AllUsers, role \in RoleIds : RoleRetrieve(user, role)
    \/ \E user \in AllUsers, club \in ClubIds : RoleCreate(user, club, PRIVILEGE_MEM)
    \/ \E user \in AllUsers, role \in RoleIds, club \in ClubIds :
            RoleUpdate(user, role, club)
    \/ \E user \in AllUsers, role \in RoleIds : RoleDelete(user, role)

SpecRole == InitAuth /\ [][NextRole]_vars

\* C18: a read of a club role succeeds only for a member of its club; a
\* create, update or delete of a club role succeeds only for a representative
\* of its club, a secretary being no exception
C18_RoleAuthorization ==
    [][/\ \A role \in DOMAIN roles :
            (/\ last'.op \in {"role_retrieve", "role_update", "role_delete"}
             /\ last'.target = role
             /\ last'.result = "ok") =>
                IF last'.op = "role_retrieve"
                THEN has_member(roles[role].club, last'.actor)
                ELSE has_rep(roles[role].club, last'.actor)
       /\ \A role \in RoleIds :
            (/\ last'.op = "role_create"
             /\ last'.target = role
             /\ last'.result = "ok") =>
                has_rep(roles'[role].club, last'.actor)]_vars

\* The club of a membership
ClubOf(m) == roles[memberships[m].club_role].club

\* C19: a secretary is not refused the read, update or delete of any
\* membership and is the only one whose create succeeds; anyone else is
\* allowed the read exactly when a member of the membership's club and the
\* update or delete exactly when a representative of it; a refused call
\* changes no membership
C19_MembershipAuthorization ==
    [][/\ \A m \in DOMAIN memberships :
            (/\ last'.op \in {"membership_retrieve", "membership_update",
                              "membership_delete"}
             /\ last'.target = m) =>
                LET allowed ==
                        \/ is_secretary(last'.actor)
                        \/ IF last'.op = "membership_retrieve"
                           THEN has_member(ClubOf(m), last'.actor)
                           ELSE has_rep(ClubOf(m), last'.actor)
                IN  /\ last'.result # "PermissionDenied" <=> allowed
                    /\ last'.op # "membership_update" =>
                          (last'.result = "ok" <=> allowed)
                    /\ ~allowed => memberships' = memberships
                    /\ (last'.op = "membership_delete" /\ allowed) =>
                          m \notin DOMAIN memberships'
       /\ last'.op = "membership_create" =>
            IF is_secretary(last'.actor)
            THEN last'.result = "ok" /\ last'.target \in DOMAIN memberships'
            ELSE last'.result = "PermissionDenied" /\ memberships' = memberships]_vars

\* A representative who is no secretary was refused the create of a
\* membership in the club
C19_Witness ==
    /\ last.op = "membership_create"
    /\ last.result = "PermissionDenied"
    /\ ~is_secretary(last.actor)
    /\ has_rep(1, last.actor)

-----------------------------------------------------------------------------
(* api/views.py: ClubMembershipRequestViewSet retrieve, and the methods the
   viewset has no handler for *)

\* GenericAPIView.get_object() of ClubMembershipRequestViewSet
request_get_object(method, user, rid) ==
    IF rid \notin ClubMembershipRequestFilter(user)
    THEN "NotFound"
    ELSE IF ~ClubMembershipRequestPermission(method, user, rid)
    THEN "PermissionDenied"
    ELSE "ok"

\* GET requests/<rid>/
RequestRetrieve(user, rid) ==
    /\ rid \in DOMAIN requests
    /\ Done("request_retrieve", user, rid, request_get_object("GET", user, rid))
    /\ UNCHANGED <<workflow, content>>

\* PUT or DELETE requests/<rid>/: CreateListRetrieveViewSet has no
\* update and no destroy, so the dispatch finds no handler
RequestWrite(method, user, rid) ==
    /\ rid \in DOMAIN requests
    /\ Done(IF method = "DELETE" THEN "request_delete" ELSE "request_update",
            user, rid, "MethodNotAllowed")
    /\ UNCHANGED <<workflow, content>>

\* The users who ask for membership before the calls below
Askers == {2}

\* Two clubs with their channels; user 12 represents club 1
InitRequest ==
    /\ clubs = [c \in {1, 2} |-> TheClubs[c]]
    /\ channels = [c \in {1, 2} |-> DefaultChannel(c, TheClubs[c].name)]
    /\ subs = << >>
    /\ roles = (1 :> DefaultRole(1, PRIVILEGE_REP))
    /\ memberships = (1 :> [user |-> 12, club_role |-> 1])
    /\ requests = << >>
    /\ inflight = [h \in Callers |-> NoInst]
    /\ NoContent
    /\ last = NoCall

NextRequest ==
    \/ \E user \in Askers, club \in ClubIds : RequestCreate(user, club)
    \/ \E user \in AllUsers, rid \in RequestIds : RequestRetrieve(user, rid)
    \/ \E method \in {"PUT", "DELETE"}, user \in AllUsers, rid \in RequestIds :
          RequestWrite(method, user, rid)
    \/ \E op \in {"accept", "reject", "cancel"}, user \in AllUsers, rid \in RequestIds :
          RequestAction(op, user, rid)
    \/ \E op \in {"accept", "reject", "cancel"}, rid \in RequestIds : Method(op, rid)

SpecRequest == InitRequest /\ [][NextRequest]_vars

\* C20: the read of a request succeeds exactly for its requester and the
\* representatives of its club; an update or delete of a request is refused
\* to everyone and removes or changes no request; the status and closed of a
\* request change only in accept, reject or cancel of that request
C20_RequestReadOnly ==
    [][/\ \A rid \in DOMAIN requests :
            /\ (last'.op = "request_retrieve" /\ last'.target = rid) =>
                  (last'.result = "ok" <=>
                      \/ requests[rid].user = last'.actor
                      \/ has_rep(requests[rid].club, last'.actor))
            /\ rid \in DOMAIN requests'
            /\ (\/ requests'[rid].status # requests[rid].status
                \/ requests'[rid].closed # requests[rid].closed) =>
                  /\ last'.op \in {"accept", "reject", "cancel"}
                  /\ last'.target = rid
       /\ last'.op \in {"request_update", "request_delete"} =>
            /\ last'.result # "ok"
            /\ requests' = requests]_vars

\* A user whom the filter takes for a representative, but who is none, was
\* refused the read of a request
C20_Witness ==
    /\ last.op = "request_retrieve"
    /\ last.result = "PermissionDenied"
    /\ last.target \in DOMAIN requests
    /\ requests[last.target].user # last.actor
    /\ requests[last.target].status # REQUEST_STATUS_PENDING

-----------------------------------------------------------------------------
(* api/views.py: FeedbackViewSet and FeedbackReplyViewSet retrieve, and the
   methods a CreateListRetrieveViewSet has no handler for *)

\* A permission that lets every user through
FeedbackPermission_open(method, user, feedback) == TRUE

\* FeedbackPermission.has_object_permission
FeedbackPermission(method, user, feedback) ==
    IF method \in SAFE_METHODS
    THEN \/ feedbacks[feedback].author = user
         \/ is_secretary(user)
         \/ has_rep(feedbacks[feedback].club, user)
    ELSE FALSE

\* GenericAPIView.get_object() of FeedbackViewSet
feedback_get_object(method, user, feedback) ==
    IF \A i \in DOMAIN FeedbackFilter(user, NoParams).rows :
            FeedbackFilter(user, NoParams).rows[i] # feedback
    THEN "NotFound"
    ELSE IF ~FeedbackPermission(method, user, feedback)
    THEN "PermissionDenied"
    ELSE "ok"

\* GET feedbacks/<feedback>/
FeedbackRetrieve(user, feedback) ==
    /\ feedback \in DOMAIN feedbacks
    /\ Done("feedback_retrieve", user, feedback,
            feedback_get_object("GET", user, feedback))
    /\ UNCHANGED <<workflow, content>>

\* PUT or DELETE of a row of a CreateListRetrieveViewSet: the viewset has no
\* update and no destroy, so the dispatch finds no handler
Unhandled(op, user, table, pk) ==
    /\ pk \in DOMAIN table
    /\ Done(op, user, pk, "MethodNotAllowed")
    /\ UNCHANGED <<workflow, content>>

\* User 12 holds role 1 and user 1 holds role 2
Swapped ==
    (1 :> [user |-> 12, club_role |-> 1]) @@ (2 :> [user |-> 1, club_role |-> 2])

\* Two clubs with their channels; one of users 1 and 12 represents club 1 and
\* the other is a plain member of it
InitFeedback ==
    /\ clubs = [c \in {1, 2} |-> TheClubs[c]]
    /\ channels = [c \in {1, 2} |-> DefaultChannel(c, TheClubs[c].name)]
    /\ subs = << >>
    /\ roles = TheRoles
    /\ memberships \in {TheMembers, Swapped}
    /\ requests = << >>
    /\ inflight = [h \in Callers |-> NoInst]
    /\ NoContent
    /\ last = NoCall

NextFeedbackApi ==
    \/ \E user \in AllUsers, club \in ClubIds : FeedbackCreate(user, club)
    \/ \E user \in AllUsers, feedback \in FeedbackIds : FeedbackRetrieve(user, feedback)
    \/ \E op \in {"feedback_update", "feedback_delete"}, user \in AllUsers,
          feedback \in FeedbackIds : Unhandled(op, user, feedbacks, feedback)

SpecFeedbackApi == InitFeedback /\ [][NextFeedbackApi]_vars

FeedbackReplyPermission(method, user, reply) ==
    IF method \in SAFE_METHODS
    THEN \/ feedbacks[replies[reply].parent].author = user
         \/ is_secretary(user)
         \/ has_rep(feedbacks[replies[reply].parent].club, user)
    ELSE FALSE

\* GenericAPIView.get_object() of FeedbackReplyViewSet: FeedbackReplyFilter
\* with no query parameters, then FeedbackReplyPermission
reply_get_object(method, user, reply) ==
    IF /\ ~is_secretary(user)
       /\ feedbacks[replies[reply].parent].club \notin club_list(user)
       /\ feedbacks[replies[reply].parent].author # user
    THEN "NotFound"
    ELSE IF ~FeedbackReplyPermission(method, user, reply)
    THEN "PermissionDenied"
    ELSE "ok"

\* GET replies/<reply>/
ReplyRetrieve(user, reply) ==
    /\ reply \in DOMAIN replies
    /\ Done("reply_retrieve", user, reply, reply_get_object("GET", user, reply))
    /\ UNCHANGED <<workflow, content>>

NextReplyApi ==
    \/ \E user \in AllUsers, club \in ClubIds : FeedbackCreate(user, club)
    \/ \E user \in AllUsers, feedback \in FeedbackIds :
            FeedbackReplyCreate(user, feedback)
    \/ \E user \in AllUsers, reply \in ReplyIds : ReplyRetrieve(user, reply)
    \/ \E op \in {"reply_update", "reply_delete"}, user \in AllUsers,
          reply \in ReplyIds : Unhandled(op, user, replies, reply)

SpecReplyApi == InitFeedback /\ [][NextReplyApi]_vars

\* C22: a create of a reply to a feedback by anyone who is no representative
\* of the feedback's club, a secretary and the author included, is answered
\* with PermissionDenied and creates no reply; the read of a reply succeeds
\* only for the feedback's author, a secretary and the representatives of
\* that club; no call updates or deletes a reply
C22_ReplyAuthorization ==
    [][/\ \A f \in DOMAIN feedbacks :
            (/\ last'.op = "reply_create"
             /\ last'.target = f
             /\ ~has_rep(feedbacks[f].club, last'.actor)) =>
                /\ last'.result = "PermissionDenied"
                /\ replies' = replies
       /\ \A r \in DOMAIN replies :
            /\ (/\ last'.op = "reply_retrieve"
                /\ last'.target = r
                /\ last'.result = "ok") =>
                    \/ feedbacks[replies[r].parent].author = last'.actor
                    \/ is_secretary(last'.actor)
                    \/ has_rep(feedbacks[replies[r].parent].club, last'.actor)
            /\ r \in DOMAIN replies'
            /\ replies'[r] = replies[r]
       /\ last'.op \in {"reply_update", "reply_delete"} => last'.result # "ok"]_vars

-----------------------------------------------------------------------------
(* api/views.py: ConversationViewSet, with ConversationFilter and
   ConversationPermission *)

MaxConversations == 2

ConversationIds == 1..MaxConversations

\* ConversationFilter.filter_queryset: the rows the queryset yields for one
\* Conversation: one for each membership of the club of its channel whose
\* user id matches, and none for a reply unless replies are asked for
ConversationFilter(user, params, conversation) ==
    LET parent_id == int_param(params, "parent_id", -1).value
        channel_id == int_param(params, "channel_id", -1).value
        only_my == int_param(params, "only_my", 0).value # 0
        include_replies == int_param(params, "replies", 0).value # 0 \/ parent_id # -1
        row == conversations[conversation]
    IN  IF \/ (parent_id # -1 /\ row.parent # parent_id)
           \/ (channel_id # -1 /\ row.channel # channel_id)
           \/ (~include_replies /\ row.parent # Null)
           \/ (only_my /\ row.author # user)
        THEN {}
        ELSE {m \in DOMAIN memberships :
                /\ roles[memberships[m].club_role].club = channels[row.channel].club
                /\ id__contains(memberships[m].user, user)}

\* A permission that lets every user through
ConversationPermission_open(method, user, conversation) == TRUE

\* ConversationPermission.has_object_permission
ConversationPermission(method, user, conversation) ==
    IF method \in SAFE_METHODS
    THEN has_member(channels[conversations[conversation].channel].club, user)
    ELSE FALSE

\* ConversationViewSet.create and perform_create: is_valid() of the
\* serializer (the channel exists, and the parent when one is given), then
\* the check on the current user
ConversationCreate(user, channel, parent) ==
    /\ FreeIds(conversations, ConversationIds) # {}
    /\ LET result ==
            IF channel \notin DOMAIN channels
               \/ (parent # Null /\ parent \notin DOMAIN conversations)
            THEN "ValidationError"
            ELSE IF ~has_member(channels[channel].club, user)
            THEN "PermissionDenied"
            ELSE "ok"
       IN  /\ conversations' =
                IF result = "ok"
                THEN Insert(conversations, NewId(conversations, ConversationIds),
                            [channel |-> channel, author |-> user, parent |-> parent])
                ELSE conversations
           /\ last' = [op |-> "conversation_create", actor |-> user,
                       target |-> channel, result |-> result, detail |-> parent]
    /\ UNCHANGED workflow
    /\ UNCHANGED <<posts, feedbacks, replies, projects, project_memberships, listed>>

\* GET conversations/<conversation>/: get_object() with ConversationFilter
\* and ConversationPermission
ConversationRetrieve(user, conversation, params) ==
    /\ conversation \in DOMAIN conversations
    /\ params.replies \in {<<"0">>, <<"1">>}
    /\ LET rows == ConversationFilter(user, params, conversation) IN
        last' = [op |-> "conversation_retrieve", actor |-> user,
                 target |-> conversation,
                 result |-> IF rows = {}
                            THEN "NotFound"
                            ELSE IF Cardinality(rows) > 1
                            THEN "MultipleObjectsReturned"
                            ELSE IF ~ConversationPermission("GET", user, conversation)
                            THEN "PermissionDenied"
                            ELSE "ok",
                 detail |-> params]
    /\ UNCHANGED <<workflow, content>>

NextConversation ==
    \/ \E user \in AllUsers, channel \in ChannelIds,
          parent \in {Null} \cup ConversationIds :
            ConversationCreate(user, channel, parent)
    \/ \E user \in AllUsers, conversation \in ConversationIds,
          params \in [{"replies"} -> {<<"0">>, <<"1">>}] :
            ConversationRetrieve(user, conversation, params)
    \/ \E op \in {"conversation_update", "conversation_delete"}, user \in AllUsers,
          conversation \in ConversationIds :
            Unhandled(op, user, conversations, conversation)

SpecConversation == InitFeedback /\ [][NextConversation]_vars

\* C23: the read of a conversation succeeds only for a member of the club
\* that owns its channel; a create succeeds exactly for a member of that club
\* and records the caller as author, and anyone else is answered with
\* PermissionDenied and nothing is created; no call, whoever makes it,
\* updates or deletes a conversation
C23_ConversationAuthorization ==
    [][/\ \A c \in DOMAIN conversations :
            /\ (/\ last'.op = "conversation_retrieve"
                /\ last'.target = c
                /\ last'.result = "ok") =>
                    has_member(channels[conversations[c].channel].club, last'.actor)
            /\ c \in DOMAIN conversations'
            /\ conversations'[c] = conversations[c]
       /\ last'.op \in {"conversation_update", "conversation_delete"} =>
            last'.result # "ok"
       /\ \A channel \in DOMAIN channels :
            (/\ last'.op = "conversation_create"
             /\ last'.target = channel
             /\ last'.detail \in {Null} \cup DOMAIN conversations) =>
                IF has_member(channels[channel].club, last'.actor)
                THEN /\ last'.result = "ok"
                     /\ \E c \in DOMAIN conversations' \ DOMAIN conversations :
                            /\ conversations'[c].author = last'.actor
                            /\ conversations'[c].channel = channel
                ELSE /\ last'.result = "PermissionDenied"
                     /\ conversations' = conversations]_vars

\* A secretary who is no member of the club, and whom the filter lets through,
\* was refused the read of a conversation
C23_Witness ==
    /\ last.op = "conversation_retrieve"
    /\ last.result = "PermissionDenied"
    /\ is_secretary(last.actor)
    /\ last.target \in DOMAIN conversations

-----------------------------------------------------------------------------
(* Life cycle of a stored ClubMembershipRequest, checked under Spec *)

\* C24: the terminal states are immutable: once the stored status of a
\* request is ACCEPTED, REJECTED or CANCELLED, no step changes its status or
\* closed again, so a request makes at most one transition and makes it from
\* PENDING.
C24_TerminalStatesImmutable ==
    [][\A r \in DOMAIN requests :
        requests[r].status \in {REQUEST_STATUS_ACCEPTED, REQUEST_STATUS_REJECTED,
                                REQUEST_STATUS_CANCELLED}
        => /\ r \in DOMAIN requests'
           /\ requests'[r].status = requests[r].status
           /\ requests'[r].closed = requests[r].closed]_vars

-----------------------------------------------------------------------------
(* Frame of reject() and cancel(), checked under Spec *)

\* C25: reject() and cancel() called on a PENDING request change nothing but
\* the status and closed of that request: every ClubRole, every
\* ClubMembership and every other ClubMembershipRequest is as it was, and the
\* request keeps its user and club.
C25_RejectCancelFrame ==
    [][\A h \in Callers :
        (/\ Called(h, "reject") \/ Called(h, "cancel")
         /\ is_pending(inflight[h]))
        => /\ roles' = roles
           /\ memberships' = memberships
           /\ DOMAIN requests' = DOMAIN requests
           /\ \A r \in DOMAIN requests :
                IF r = inflight[h].rid
                THEN /\ requests'[r].user = requests[r].user
                     /\ requests'[r].club = requests[r].club
                ELSE requests'[r] = requests[r]]_vars

\* reject() closed a PENDING request while the user's earlier request and a
\* membership were stored
C25_Witness ==
    /\ last.op = "reject"
    /\ last.result = "ok"
    /\ requests[last.target].status = REQUEST_STATUS_REJECTED
    /\ DOMAIN requests # {last.target}
    /\ memberships # << >>

-----------------------------------------------------------------------------
(* Club.add_member: the role that accept() gives to the new member *)

\* The MEMBER-privilege roles of a club
MemberRoles(club) ==
    {r \in DOMAIN roles :
        roles[r].club = club /\ roles[r].privilege = PRIVILEGE_MEM}

\* Club 1 with no role, or with a MEMBER-privilege role that a representative
\* named otherwise than the display name
InitRoles ==
    /\ clubs = [c \in {1} |-> TheClubs[c]]
    /\ channels = [c \in {1} |-> DefaultChannel(c, TheClubs[c].name)]
    /\ subs = << >>
    /\ roles \in {<< >>,
                  1 :> [DefaultRole(1, PRIVILEGE_MEM) EXCEPT !.name = "Junior"]}
    /\ memberships = << >>
    /\ requests = << >>
    /\ inflight = [h \in Callers |-> NoInst]
    /\ NoContent
    /\ last = NoCall

NextRoles ==
    \/ \E actor \in AllUsers, club \in ClubIds : RequestCreate(actor, club)
    \/ \E h \in Callers, rid \in RequestIds : LoadRequest(h, rid)
    \/ \E h \in Callers : Accept(h)
    \/ \E club \in ClubIds, name \in ClubNames : ClubUpdate(club, name, "none")

SpecRoles == InitRoles /\ [][NextRoles]_vars

\* C26: the role that accept() uses is found by (club, privilege): when the
\* club of the request has a MEMBER-privilege role, whatever its name and
\* description, an accept() that returns normally creates no ClubRole and the
\* new member holds one of these roles; a role is created only when the club
\* has none.
C26_MemberRoleReused ==
    [][\A h \in Callers :
        (/\ Called(h, "accept")
         /\ last'.result = "ok"
         /\ MemberRoles(inflight[h].club) # {})
        => /\ roles' = roles
           /\ \E m \in DOMAIN memberships' :
                /\ memberships'[m].user = inflight[h].user
                /\ memberships'[m].club_role \in MemberRoles(inflight[h].club)]_vars

-----------------------------------------------------------------------------
(* api/views.py: ClubMembershipViewSet.update with the data of the request *)

\* ClubMembershipViewSet.update on request.data: the serializer is made with
\* partial=True, so is_valid() accepts data without `user` or `club_role`
\* (Null here) and validated_data then has no such key
membership_update_data(user, m, data) ==
    IF ~ClubMembershipObjectPermission("PUT", user, m)
    THEN "PermissionDenied"
    ELSE IF data.user = Null
    THEN "KeyError"
    ELSE IF memberships[m].user # data.user
    THEN "ValidationError"
    ELSE IF data.club_role = Null
    THEN "KeyError"
    ELSE IF ~has_role(roles[memberships[m].club_role].club, data.club_role)
    THEN "ValidationError"
    ELSE "ok"

MembershipUpdateData(user, m, data) ==
    /\ m \in DOMAIN memberships
    /\ memberships' = IF membership_update_data(user, m, data) = "ok"
                      THEN [memberships EXCEPT ![m].user = data.user,
                                               ![m].club_role = data.club_role]
                      ELSE memberships
    /\ last' = [op |-> "membership_update", actor |-> user, target |-> m,
                result |-> membership_update_data(user, m, data),
                detail |-> data]
    /\ UNCHANGED <<clubs, channels, subs, roles, requests, inflight>>
    /\ UNCHANGED content

\* Club 1 with its two roles and a member in each, club 2 with a member role
InitMembershipUpdate ==
    /\ clubs = [c \in {1, 2} |-> TheClubs[c]]
    /\ channels = [c \in {1, 2} |-> DefaultChannel(c, TheClubs[c].name)]
    /\ subs = << >>
    /\ roles = TheRoles @@ (3 :> DefaultRole(2, PRIVILEGE_MEM))
    /\ memberships = TheMembers
    /\ requests = << >>
    /\ inflight = [h \in Callers |-> NoInst]
    /\ NoContent
    /\ last = NoCall

NextMembershipUpdate ==
    \E user \in AllUsers, m \in MembershipIds,
       data \in [user : {Null} \cup Named, club_role : {Null, 1, 2, 3}] :
        MembershipUpdateData(user, m, data)

SpecMembershipUpdate == InitMembershipUpdate /\ [][NextMembershipUpdate]_vars

\* C27: an update of a membership by a caller who may update it succeeds
\* only if the new club_role belongs to the club of the membership's current
\* role and the user is not changed; otherwise it fails with ValidationError
\* and the membership is unchanged; so no update moves a membership to
\* another club or changes its user.
C27_UpdateKeepsClubAndUser ==
    [][\A m \in DOMAIN memberships :
        (/\ last'.op = "membership_update"
         /\ last'.target = m
         /\ last'.result # "PermissionDenied")
        => LET data == last'.detail
               same == /\ data.user \in {Null, memberships[m].user}
                       /\ data.club_role # Null =>
                            has_role(ClubOf(m), data.club_role)
           IN  /\ last'.result = "ok" => same
               /\ ~same => /\ last'.result = "ValidationError"
                           /\ memberships' = memberships
               /\ memberships'[m].user = memberships[m].user
               /\ roles[memberships'[m].club_role].club = ClubOf(m)]_vars

-----------------------------------------------------------------------------
(* api/views.py: ClubMembershipRequestViewSet.create, one request of the
   server at a time per worker: the checks, then the INSERT of perform_create *)

\* create up to the call of super().create(): the checks passed and the
\* caller holds the validated, unsaved request (its pk is not set)
CreateCheck(h, actor, club) ==
    /\ FreeCaller(h)
    /\ club \in DOMAIN clubs
    /\ IF has_member(club, actor) \/ has_pending_request(club, actor)
       THEN /\ inflight' = inflight
            /\ last' = [op |-> "create", actor |-> actor, target |-> club,
                        result |-> "ActionNotAvailable", detail |-> ""]
       ELSE /\ inflight' = [inflight EXCEPT ![h] =
                                [rid |-> Null, user |-> actor, club |-> club,
                                 status |-> REQUEST_STATUS_PENDING,
                                 closed |-> Null]]
            /\ last' = NoCall
    /\ UNCHANGED <<clubs, channels, subs, roles, memberships, requests>>
    /\ UNCHANGED content

\* super().create(): perform_create saves the request the caller holds
CreateInsert(h) ==
    /\ inflight[h] # NoInst
    /\ inflight[h].rid = Null
    /\ LET out == create_unchecked(DB, inflight[h].user, inflight[h].club) IN
        /\ out.result # "full"
        /\ requests' = out.db.requests
        /\ last' = [op |-> "create", actor |-> inflight[h].user,
                    target |-> inflight[h].club, result |-> out.result,
                    detail |-> ""]
    /\ inflight' = [inflight EXCEPT ![h] = NoInst]
    /\ UNCHANGED <<clubs, channels, subs, roles, memberships>>
    /\ UNCHANGED content

NextCreate ==
    \/ \E h \in Callers, actor \in AllUsers, club \in ClubIds :
            CreateCheck(h, actor, club)
    \/ \E h \in Callers : CreateInsert(h)

SpecCreate == InitChannel /\ [][NextCreate]_vars

\* C28: in every reachable state, the states reached by interleaved create
\* calls of one user for one club included, there is at most one PENDING
\* ClubMembershipRequest for each user and club.
C28_OnePendingPerUserAndClub ==
    \A user \in AllUsers, club \in ClubIds :
        Cardinality({r \in DOMAIN requests :
                        /\ requests[r].user = user
                        /\ requests[r].club = club
                        /\ requests[r].status = REQUEST_STATUS_PENDING}) <= 1

-----------------------------------------------------------------------------
(* api/filters.py: the clubs a caller is taken to belong to, against
   Club.has_member and Club.has_rep *)

NextScope ==
    \/ \E user \in AllUsers, role \in RoleIds : RoleRetrieve(user, role)
    \/ \E user \in AllUsers, channel \in ChannelIds :
            ConversationCreate(user, channel, Null)
    \/ \E user \in AllUsers, conversation \in ConversationIds :
            ConversationRetrieve(user, conversation, [replies |-> <<"0">>])

SpecScope == InitAuth /\ [][NextScope]_vars

\* C29: whatever ids the users have, the filters take a caller for a member
\* of a club exactly when has_member holds (the roles and the conversations
\* of the club pass ClubRoleFilter and ConversationFilter exactly then), and
\* for a representative of it exactly when has_rep holds (the club is in the
\* club list of ClubMembershipRequestFilter exactly then); so nobody is shown
\* a role, conversation or request of a club only because another user
\* belongs to it.
C29_ScopeAgreesWithMembership ==
    \A user \in AllUsers, club \in DOMAIN clubs :
        /\ club \in club_list(user) <=> has_rep(club, user)
        /\ \A role \in DOMAIN roles :
            roles[role].club = club =>
                (ClubRoleFilter(user, role) # {} <=> has_member(club, user))
        /\ \A c \in DOMAIN conversations :
            channels[conversations[c].channel].club = club =>
                (ConversationFilter(user, NoParams, c) # {}
                    <=> has_member(club, user))

-----------------------------------------------------------------------------
(* api/views.py: ChannelViewSet.subscribe / unsubscribe, with
   ChannelPermission *)

\* ChannelPermission.has_object_permission
ChannelPermission(method, user, channel) ==
    IF method \in SAFE_METHODS
    THEN TRUE
    ELSE IF method = "PUT"
    THEN has_rep(channels[channel].club, user)
    ELSE FALSE

\* PUT channels/<channel>/subscribe/: get_object() checks ChannelPermission
\* for the method of the request, then Channel.subscribe
ChannelSubscribe(user, channel) ==
    /\ channel \in DOMAIN channels
    /\ IF ChannelPermission("PUT", user, channel)
       THEN Subscribe(user, channel)
       ELSE /\ Done("subscribe", user, channel, "PermissionDenied")
            /\ UNCHANGED <<workflow, content>>

\* PUT channels/<channel>/unsubscribe/
ChannelUnsubscribe(user, channel) ==
    /\ channel \in DOMAIN channels
    /\ IF ChannelPermission("PUT", user, channel)
       THEN Unsubscribe(user, channel)
       ELSE /\ Done("unsubscribe", user, channel, "PermissionDenied")
            /\ UNCHANGED <<workflow, content>>

NextSubscribe ==
    \/ \E user \in AllUsers, channel \in ChannelIds : ChannelSubscribe(user, channel)
    \/ \E user \in AllUsers, channel \in ChannelIds : ChannelUnsubscribe(user, channel)

SpecSubscribe == InitAuth /\ [][NextSubscribe]_vars

\* C30: every user, representative of the channel's club or not, is
\* permitted to subscribe to a channel and to unsubscribe from it: the call
\* returns normally, and after subscribe the channel has the caller as a
\* subscriber, after unsubscribe it has not.
C30_SubscribeOpenToAll ==
    [][\A user \in AllUsers, channel \in DOMAIN channels :
        (/\ last'.op \in {"subscribe", "unsubscribe"}
         /\ last'.actor = user
         /\ last'.target = channel)
        => /\ last'.result = "ok"
           /\ has_subscriber(channel, user)' <=> (last'.op = "subscribe")]_vars

====
